---- MODULE Spec2Model ----
(***************************************************************************)
(* Model of the connection layer of client/network/src/channel.rs:         *)
(*   - the data path of one connection direction (a send half, the         *)
(*     transport, the peer's receive half), for both Protocols variants;   *)
(*   - the listeners, the in-process registry MPSC_POOL, the connection-id *)
(*     counter and the in-process connect rendezvous.                      *)
(* The multiplexing protocol types (TcpSendProtocol, MpscSendProtocol,     *)
(* TcpRecvProtocol, MpscRecvProtocol) come from the network_protocol       *)
(* crate, which channel.rs only imports; they are modelled from spec.md    *)
(* sections 4.2, 4.3 and 6.                                                *)
(***************************************************************************)
EXTENDS Integers, Sequences, FiniteSets, TLC

VARIABLES
    \* ---- data path of one connection direction ----
    variant,    \* the Protocols variant, fixed at construction: "Tcp" | "Mpsc"
    sendHalf,   \* the SendProtocols value: "live" | "dead" (a send or flush
                \* has failed) | "dropped"
    streams,    \* send half: priority recorded for each opened stream id
    store,      \* send half: messages queued by send, waiting for a flush
    wire,       \* the transport: Tcp: bytes written and not yet read;
                \*                Mpsc: MpscMsg values in the bounded channel
    sockErr,    \* Tcp: the socket has failed (connection reset)
    recvHalf,   \* the RecvProtocols value: "idle" | "waiting" (inside recv())
                \* | "dropped"
    recvBuf,    \* TcpRecvProtocol: bytes received and not yet parsed
    sentLog,    \* history: the events passed to send, in call order
    txLog,      \* history: the events handed to the transport, in order
    recvLog,    \* history: the results returned by recv(), in call order
    sendFails,  \* history: how many send/flush calls returned Closed (up to 2)
    lastFlush,  \* history: budget and consumed bandwidth of the last flush
                \* that returned Ok
    \* ---- listeners, registry and in-process rendezvous ----
    cids,       \* the shared connection-id counter (Arc<AtomicU64>)
    pool,       \* MPSC_POOL: listen address -> the listener its sender feeds
    listeners,  \* the accept tasks spawned so far, in spawn order
    conns,      \* the with_mpsc_connect calls made so far, in call order
    chans,      \* the bounded channels created so far: their queued messages
    published,  \* what the listeners sent to the new-connection sink, in order
    issued,     \* history: the ids fetch_add returned, in the order issued
    attempts,   \* history: the listener each stream-socket attempt went to
    rejected,   \* history: the attempts whose accept() failed and the requests
                \* whose reply could not be delivered, with the listener
    rcvd,       \* history: which endpoint received which endpoint's message
    late,       \* history: the sends and recvs made on a connection after the
                \* listener that accepted it had exited
    calls,      \* history: the with_tcp_listen calls that failed and the
                \* with_tcp_connect calls, with what they returned
    \* ---- one in-process channel near its capacity ----
    bq,         \* the bounded channel: the messages queued, oldest first
    bSent,      \* number of messages MpscDrain::send has put into the channel
    bRecvd,     \* number of messages MpscSink::recv has returned
    bPending,   \* a send is suspended, waiting for room
    bInOrder,   \* history: every message was returned in the order sent
    bResumed,   \* history: a suspended send has completed
    bRecvHalf,  \* the consumer's MpscSink: "live" | "dropped"
    bLast,      \* history: what the last completed send returned, and
                \* whether it had been suspended
    \* ---- one connection from construction to its split ----
    sides,      \* the Protocols value each side holds and its initialize call
    links,      \* the frames in transit towards each side
    halfOf,     \* the two halves split returned to each side: "None" (not
                \* split yet) | "live" | "dropped"
    halfLog,    \* history: the send and recv calls made on the halves, with
                \* the state of the halves at the call and the result
    \* ---- the stream socket under TcpDrain and TcpSink, byte by byte ----
    scratch,    \* TcpSink: the buffer field
    writes,     \* history: the TcpDrain::send calls: chunk, bytes the socket
                \* took, result
    chunks,     \* history: the results of the TcpSink::recv calls
    \* ---- the lock of MPSC_POOL ----
    poolLock,   \* the call that holds the MutexGuard, if any
    lockQ,      \* the calls waiting in lock().await, oldest first
    \* ---- the consumer end of the new-connection sink ----
    sink,       \* the receiver of c2s_protocol_s: "live" | "gone"
    unpublished,\* history: the pairs whose send to the sink failed, in order
    observed,   \* history: what the peers of connections saw on recv
    \* ---- a DeferredTracer (util.rs) ----
    tracer,     \* its fields: log_enabled, items, last, last_cnt
    tNow,       \* the monotonic clock Instant::now() reads, in ticks
    tChecks,    \* the build checks integer overflow (debug) or wraps (release)
    tPanicked,  \* a log call panicked on overflow
    tCalls,     \* the number of log and print calls made
    tRet,       \* what the last print call returned, and which call it was
    tLogged,    \* history: per item, the log calls since the last returned map
    tLogAt      \* history: the clock at the last log call (at new() before any)

dataVars == <<variant, sendHalf, streams, store, wire, sockErr, recvHalf,
              recvBuf, sentLog, txLog, recvLog>>

callVars == <<sendFails, lastFlush>>

listenVars == <<cids, pool, listeners, conns, chans, published, issued,
                attempts, rejected, rcvd, late, calls>>

boundVars == <<bq, bSent, bRecvd, bPending, bInOrder, bResumed, bRecvHalf, bLast>>

connVars == <<sides, links, halfOf, halfLog>>

drainVars == <<scratch, writes, chunks>>

lockVars == <<poolLock, lockQ>>

sinkVars == <<sink, unpublished, observed>>

traceVars == <<tracer, tNow, tChecks, tPanicked, tCalls, tRet, tLogged, tLogAt>>

vars == <<dataVars, callVars, listenVars, boundVars, connVars, drainVars, lockVars,
          sinkVars, traceVars>>

----------------------------------------------------------------------------
(* Bounds of the model *)

MaxSends == 3
MaxRecvs == 3
MaxBudget == 3
MaxListeners == 2
MaxConnects == 2
MaxAttempts == 2
MaxCalls == 2
MaxWrites == 2
MaxReads == 3
MaxHalfOps == 3
MaxEarly == 3
MaxMsgs == 2
MaxBoundSends == 3
BoundSlack == 2
MaxTraceCalls == 4
MaxTicks == 3
TicksPerSec == 2

(* Program constants *)

MPSC_CHANNEL_BOUND == 1000
TcpBufferSize == 1500

----------------------------------------------------------------------------
(* Values *)

Sids == {1, 2}
Prios == {2, 4}
PromiseSets == {4}
Payloads == {<<8>>, <<7, 8>>}
Budgets == {1, MaxBudget}

OpenEvents == [type : {"OpenStream"}, sid : Sids, prio : Prios, promises : PromiseSets]
MessageEvents == [type : {"Message"}, sid : Sids, data : Payloads]
Closed == [type |-> "Closed"]

Min(a, b) == IF a < b THEN a ELSE b

----------------------------------------------------------------------------
(* Wire format of the stream-socket protocol: one frame per event.         *)

EncodeFrame(ev) ==
    IF ev.type = "OpenStream"
    THEN <<1, ev.sid, ev.prio, ev.promises>>
    ELSE <<2, ev.sid, Len(ev.data)>> \o ev.data

\* The first complete frame of buf, if buf holds one.
DecodeFrame(buf) ==
    IF Len(buf) >= 4 /\ buf[1] = 1
    THEN [ok |-> TRUE,
          ev |-> [type |-> "OpenStream", sid |-> buf[2], prio |-> buf[3],
                  promises |-> buf[4]],
          rest |-> SubSeq(buf, 5, Len(buf))]
    ELSE IF Len(buf) >= 3 /\ buf[1] = 2 /\ Len(buf) >= 3 + buf[3]
    THEN [ok |-> TRUE,
          ev |-> [type |-> "Message", sid |-> buf[2],
                  data |-> SubSeq(buf, 4, 3 + buf[3])],
          rest |-> SubSeq(buf, 4 + buf[3], Len(buf))]
    ELSE [ok |-> FALSE]

----------------------------------------------------------------------------
(* Transport adapters *)

\* TcpDrain::send: write_all puts the whole chunk behind what was written.
TcpDrainSend(w, data) == w \o data

\* Mutant: writes succeed again once the peer has read what was in flight.
TcpWriteRecovers == ~sockErr \/ wire = <<>>

\* TcpDrain::send returns Ok: the write did not fail.
TcpWriteOk == ~sockErr

\* Mutant: the last byte of the chunk is stale buffer content.
TcpSinkChunkStale(w, n) == [i \in 1 .. n |-> IF i = n THEN 0 ELSE w[i]]

\* TcpSink::recv, Ok(n) with n > 0: the chunk is the first n bytes in flight.
TcpSinkChunk(w, n) == SubSeq(w, 1, n)

\* TcpSink::recv: the sizes a read may return.
TcpReadSizes(w) == 1 .. Min(Len(w), TcpBufferSize)

\* Mutant: end of stream is reported ahead of the bytes still in flight.
TcpReadEofEarly == sendHalf = "dropped" /\ ~sockErr

\* Mutant: a read at end of stream never completes.
TcpReadNoEof == FALSE

\* TcpSink::recv, Ok(0): end of stream, the peer's write half is shut down
\* and everything it wrote has been read.
TcpReadEof == wire = <<>> /\ sendHalf = "dropped" /\ ~sockErr

\* Mutant: the message jumps the queue.
MpscDrainSendFront(q, msg) == <<msg>> \o q

\* MpscDrain::send: the message goes to the back of the channel.
MpscDrainSend(q, msg) == Append(q, msg)

\* Mutant: the channel never has room.
MpscNoRoom(q, n) == FALSE

\* Mutant: the channel is treated as unbounded.
MpscAlwaysRoom(q, n) == TRUE

\* MpscDrain::send completes only when the bounded channel has room.
MpscHasRoom(q, n) == Len(q) + n <= MPSC_CHANNEL_BOUND

\* MpscDrain::send returns Ok only while the channel's receiver exists.
MpscSendOk == recvHalf # "dropped"

\* Mutant: None as soon as the sender is dropped, whatever is still queued.
MpscRecvNoneEarly == sendHalf = "dropped"

\* MpscSink::recv, None: channel empty and every sender dropped.
MpscRecvNone == wire = <<>> /\ sendHalf = "dropped"

----------------------------------------------------------------------------
(* Send half (spec.md 4.2) *)

\* The transport content after one event is handed to the drain.
Transmit(w, ev) ==
    IF variant = "Tcp" THEN TcpDrainSend(w, EncodeFrame(ev))
    ELSE MpscDrainSend(w, ev)

\* The drain's send returns Ok once it completes: the socket write did not
\* fail (Tcp); the receiver is alive and the channel has room (Mpsc).
DrainOk(n) ==
    IF variant = "Tcp" THEN TcpWriteOk ELSE MpscSendOk /\ MpscHasRoom(wire, n)

\* The drain's send returns Closed.
DrainFails == IF variant = "Tcp" THEN ~TcpWriteOk ELSE ~MpscSendOk

\* The drain's send completes (it is not suspended on a full channel).
DrainReady(n) == variant = "Mpsc" => (~MpscSendOk \/ MpscHasRoom(wire, n))

\* Mutant: the oldest message first, whatever its priority.
NextIdxFifo(st) == 1

\* Position in st of the next message a flush transmits: the oldest message
\* of the most urgent (lowest number) priority.
NextIdx(st) ==
    CHOOSE i \in 1 .. Len(st) :
        \A j \in 1 .. Len(st) :
            \/ streams[st[i].sid] < streams[st[j].sid]
            \/ streams[st[i].sid] = streams[st[j].sid] /\ i <= j

RemoveAt(st, i) == SubSeq(st, 1, i - 1) \o SubSeq(st, i + 1, Len(st))

\* The messages one flush transmits under a budget, in transmission order.
RECURSIVE FlushPlan(_, _)
FlushPlan(st, budget) ==
    IF st = <<>> THEN <<>>
    ELSE LET i == NextIdx(st)
         IN IF Len(st[i].data) > budget THEN <<>>
            ELSE <<st[i]>> \o FlushPlan(RemoveAt(st, i), budget - Len(st[i].data))

RECURSIVE RemoveAll(_, _)
RemoveAll(st, plan) ==
    IF plan = <<>> THEN st
    ELSE LET i == CHOOSE i \in 1 .. Len(st) :
                      st[i] = plan[1] /\ \A j \in 1 .. i - 1 : st[j] # plan[1]
         IN RemoveAll(RemoveAt(st, i), Tail(plan))

RECURSIVE TransmitAll(_, _)
TransmitAll(w, plan) ==
    IF plan = <<>> THEN w ELSE TransmitAll(Transmit(w, plan[1]), Tail(plan))

\* The payload bytes of a sequence of messages.
RECURSIVE PlanBytes(_)
PlanBytes(plan) ==
    IF plan = <<>> THEN 0 ELSE Len(plan[1].data) + PlanBytes(Tail(plan))

\* One more call has returned Closed.
CountFail(n) == Min(n + 1, 2)

\* send(OpenStream): records the priority, transmits the control event at
\* once; Closed when the drain fails or the half is already dead.
SendOpen(ev) ==
    /\ sendHalf \in {"live", "dead"}
    /\ Len(sentLog) < MaxSends
    /\ ev.sid \notin DOMAIN streams
    /\ DrainReady(1)
    /\ sentLog' = Append(sentLog, ev)
    /\ IF sendHalf = "live" /\ DrainOk(1)
       THEN /\ streams' = [s \in DOMAIN streams \cup {ev.sid} |->
                              IF s = ev.sid THEN ev.prio ELSE streams[s]]
            /\ wire' = Transmit(wire, ev)
            /\ txLog' = Append(txLog, ev)
            /\ UNCHANGED <<sendHalf, sendFails>>
       ELSE /\ sendHalf' = "dead"
            /\ sendFails' = CountFail(sendFails)
            /\ UNCHANGED <<streams, wire, txLog>>
    /\ UNCHANGED <<variant, store, sockErr, recvHalf, recvBuf, recvLog, lastFlush>>
    /\ UNCHANGED <<listenVars, boundVars, connVars, drainVars, lockVars, sinkVars, traceVars>>

\* Mutant: a message is handed to the transport by send itself.
SendMessageEager(ev) ==
    /\ sendHalf = "live"
    /\ Len(sentLog) < MaxSends
    /\ ev.sid \in DOMAIN streams
    /\ DrainOk(1)
    /\ sentLog' = Append(sentLog, ev)
    /\ wire' = Transmit(wire, ev)
    /\ txLog' = Append(txLog, ev)
    /\ UNCHANGED <<variant, sendHalf, streams, store, sockErr, recvHalf, recvBuf,
                   recvLog>>
    /\ UNCHANGED <<callVars, listenVars, boundVars, connVars, drainVars, lockVars, sinkVars, traceVars>>

\* send(Message): queues the payload until a flush; Closed on a dead half.
SendMessage(ev) ==
    /\ sendHalf \in {"live", "dead"}
    /\ Len(sentLog) < MaxSends
    /\ ev.sid \in DOMAIN streams
    /\ sentLog' = Append(sentLog, ev)
    /\ IF sendHalf = "live"
       THEN /\ store' = Append(store, ev)
            /\ UNCHANGED sendFails
       ELSE /\ sendFails' = CountFail(sendFails)
            /\ UNCHANGED store
    /\ UNCHANGED <<variant, sendHalf, streams, wire, sockErr, recvHalf, recvBuf,
                   txLog, recvLog, lastFlush>>
    /\ UNCHANGED <<listenVars, boundVars, connVars, drainVars, lockVars, sinkVars, traceVars>>

NoFlush == [budget |-> 0, used |-> 0]

\* Mutant: the facade reports one unit more than the variant consumed.
FlushReturnPadded(used) == used + 1

\* SendProtocols::flush returns what the variant's flush returned.
FlushReturn(used) == used

\* flush(budget, dt): transmits pending messages by priority within the
\* budget and returns the bandwidth consumed; Closed when the drain fails or
\* the half is already dead. A flush that finds nothing to transmit changes
\* nothing.
Flush(budget) ==
    /\ sendHalf \in {"live", "dead"}
    /\ LET plan == FlushPlan(store, budget)
       IN /\ sendHalf = "live" => plan # <<>>
          /\ DrainReady(Len(plan))
          /\ IF sendHalf = "live" /\ DrainOk(Len(plan))
             THEN /\ wire' = TransmitAll(wire, plan)
                  /\ store' = RemoveAll(store, plan)
                  /\ txLog' = txLog \o plan
                  /\ lastFlush' = [budget |-> budget, used |-> FlushReturn(PlanBytes(plan))]
                  /\ UNCHANGED <<sendHalf, sendFails>>
             ELSE /\ sendHalf' = "dead"
                  /\ sendFails' = CountFail(sendFails)
                  /\ UNCHANGED <<wire, store, txLog, lastFlush>>
    /\ UNCHANGED <<variant, streams, sockErr, recvHalf, recvBuf, sentLog, recvLog>>
    /\ UNCHANGED <<listenVars, boundVars, connVars, drainVars, lockVars, sinkVars, traceVars>>

\* drop(send half): the write half shuts down behind the bytes already
\* written (Tcp); the channel's sender is dropped (Mpsc).
DropSend ==
    /\ sendHalf \in {"live", "dead"}
    /\ sendHalf' = "dropped"
    /\ store' = <<>>
    /\ UNCHANGED <<variant, streams, wire, sockErr, recvHalf, recvBuf,
                   sentLog, txLog, recvLog>>
    /\ UNCHANGED <<callVars, listenVars, boundVars, connVars, drainVars, lockVars, sinkVars, traceVars>>

\* drop(receive half): the channel's receiver is dropped (Mpsc); the read
\* half of the socket is released (Tcp).
DropRecv ==
    /\ recvHalf = "idle"
    /\ recvHalf' = "dropped"
    /\ UNCHANGED <<variant, sendHalf, streams, store, wire, sockErr, recvBuf,
                   sentLog, txLog, recvLog>>
    /\ UNCHANGED <<callVars, listenVars, boundVars, connVars, drainVars, lockVars, sinkVars, traceVars>>

\* The connection is reset under the stream socket.
NetReset ==
    /\ variant = "Tcp"
    /\ ~sockErr
    /\ sockErr' = TRUE
    /\ UNCHANGED <<variant, sendHalf, streams, store, wire, recvHalf, recvBuf,
                   sentLog, txLog, recvLog>>
    /\ UNCHANGED <<callVars, listenVars, boundVars, connVars, drainVars, lockVars, sinkVars, traceVars>>

----------------------------------------------------------------------------
(* Receive half (spec.md 4.3) over TcpSink::recv / MpscSink::recv *)

RecvCall ==
    /\ recvHalf = "idle"
    /\ Len(recvLog) < MaxRecvs
    /\ recvHalf' = "waiting"
    /\ UNCHANGED <<variant, sendHalf, streams, store, wire, sockErr, recvBuf,
                   sentLog, txLog, recvLog>>
    /\ UNCHANGED <<callVars, listenVars, boundVars, connVars, drainVars, lockVars, sinkVars, traceVars>>

\* Tcp: a complete frame is buffered: recv returns its event.
TcpRecvEvent ==
    /\ variant = "Tcp"
    /\ recvHalf = "waiting"
    /\ DecodeFrame(recvBuf).ok
    /\ recvLog' = Append(recvLog, DecodeFrame(recvBuf).ev)
    /\ recvBuf' = DecodeFrame(recvBuf).rest
    /\ recvHalf' = "idle"
    /\ UNCHANGED <<variant, sendHalf, streams, store, wire, sockErr, sentLog, txLog>>
    /\ UNCHANGED <<callVars, listenVars, boundVars, connVars, drainVars, lockVars, sinkVars, traceVars>>

\* Tcp: no complete frame yet: TcpSink::recv reads a chunk of n bytes.
TcpRecvRead(n) ==
    /\ variant = "Tcp"
    /\ recvHalf = "waiting"
    /\ ~DecodeFrame(recvBuf).ok
    /\ recvBuf' = recvBuf \o TcpSinkChunk(wire, n)
    /\ wire' = SubSeq(wire, n + 1, Len(wire))
    /\ UNCHANGED <<variant, sendHalf, streams, store, sockErr, recvHalf,
                   sentLog, txLog, recvLog>>
    /\ UNCHANGED <<callVars, listenVars, boundVars, connVars, drainVars, lockVars, sinkVars, traceVars>>

\* Tcp: TcpSink::recv reads zero bytes or fails: recv returns Closed.
TcpRecvClosed ==
    /\ variant = "Tcp"
    /\ recvHalf = "waiting"
    /\ ~DecodeFrame(recvBuf).ok
    /\ TcpReadEof \/ sockErr
    /\ recvLog' = Append(recvLog, Closed)
    /\ recvHalf' = "idle"
    /\ UNCHANGED <<variant, sendHalf, streams, store, wire, sockErr, recvBuf,
                   sentLog, txLog>>
    /\ UNCHANGED <<callVars, listenVars, boundVars, connVars, drainVars, lockVars, sinkVars, traceVars>>

\* Mpsc: MpscSink::recv takes the message at the front of the channel.
MpscRecvEvent ==
    /\ variant = "Mpsc"
    /\ recvHalf = "waiting"
    /\ wire # <<>>
    /\ recvLog' = Append(recvLog, Head(wire))
    /\ wire' = Tail(wire)
    /\ recvHalf' = "idle"
    /\ UNCHANGED <<variant, sendHalf, streams, store, sockErr, recvBuf, sentLog, txLog>>
    /\ UNCHANGED <<callVars, listenVars, boundVars, connVars, drainVars, lockVars, sinkVars, traceVars>>

\* Mpsc: MpscSink::recv gets None: recv returns Closed.
MpscRecvClosed ==
    /\ variant = "Mpsc"
    /\ recvHalf = "waiting"
    /\ MpscRecvNone
    /\ recvLog' = Append(recvLog, Closed)
    /\ recvHalf' = "idle"
    /\ UNCHANGED <<variant, sendHalf, streams, store, wire, sockErr, recvBuf,
                   sentLog, txLog>>
    /\ UNCHANGED <<callVars, listenVars, boundVars, connVars, drainVars, lockVars, sinkVars, traceVars>>

RecvStep ==
    \/ TcpRecvEvent
    \/ \E n \in TcpReadSizes(wire) : TcpRecvRead(n)
    \/ TcpRecvClosed
    \/ MpscRecvEvent
    \/ MpscRecvClosed

----------------------------------------------------------------------------
(* Listeners, registry, connection ids *)

Addrs == {1, 2}

\* MPSC_POOL's mutex is free.
NoHolder == [op |-> "none", addr |-> 0]

NoCur == [proto |-> [variant |-> "None", tx |-> 0, rx |-> 0], cid |-> 0, req |-> 0]

\* Mutant: the counter is read but not advanced.
FetchAddStuck(c) == c

\* AtomicU64::fetch_add(1, Relaxed): the value stored by one atomic step; the
\* caller gets the value held before it.
FetchAdd(c) == c + 1

\* Protocols::new_mpsc(sender, receiver): the halves of an in-process value.
NewMpsc(sender, receiver) == [variant |-> "Mpsc", tx |-> sender, rx |-> receiver]

\* Protocols::new_tcp(stream): both halves are halves of the one socket.
NewTcp == [variant |-> "Tcp", tx |-> 0, rx |-> 0]

\* Mutant: the accepted side sends into its own channel and receives from the
\* connector's.
ListenerProtocolsSwapped(connectorSender, ownReceiver) ==
    NewMpsc(ownReceiver, connectorSender)

\* Mutant: the accepted side is wired to its own channel in both directions.
ListenerProtocolsLoop(connectorSender, ownReceiver) == NewMpsc(ownReceiver, ownReceiver)

\* with_mpsc_listen builds the accepted side from the connector's sender
\* (local_to_remote_s) and the receiver of the channel it has just created.
ListenerProtocols(connectorSender, ownReceiver) == NewMpsc(connectorSender, ownReceiver)

\* with_mpsc_connect builds its side from the sender the listener replied
\* with and the receiver of the channel it created itself.
ConnectorProtocols(replySender, ownReceiver) == NewMpsc(replySender, ownReceiver)

\* Some sender of listener l's rendezvous channel is alive: the registry's, or
\* the clone a with_mpsc_connect call holds until it returns.
SendersAlive(l) ==
    \/ \E a \in DOMAIN pool : pool[a] = l
    \/ \E k \in 1 .. Len(conns) : conns[k].target = l /\ conns[k].pc \in {"send", "await"}

SetListener(l, r) == [listeners EXCEPT ![l] = r]

\* The steps of with_tcp_listen that can fail before the accept task is
\* spawned: creating the socket, binding it, handing it to the runtime.
BindFailures == {"socket", "bind", "from_std"}

IoError == [err |-> "Io", kind |-> "Os"]

\* Mutant: the accept task is spawned although the bind failed.
BindFailureSpawnsTask ==
    <<[kind |-> "Tcp", addr |-> 0, pc |-> "select", cancel |-> "armed",
       queue |-> <<>>, cur |-> NoCur]>>

\* The accept tasks a failed with_tcp_listen leaves behind: the error is
\* returned by `?` before tokio::spawn is reached.
BindFailureSpawns == <<>>

\* with_tcp_listen: bind, then spawn the accept task; f is the step that
\* fails, or "none".
TcpListen(f) ==
    /\ IF f = "none"
       THEN /\ Len(listeners) < MaxListeners
            /\ listeners' = Append(listeners,
                  [kind |-> "Tcp", addr |-> 0, pc |-> "select", cancel |-> "armed",
                   queue |-> <<>>, cur |-> NoCur])
            /\ UNCHANGED calls
       ELSE /\ Len(calls) < MaxCalls
            /\ listeners' = listeners \o BindFailureSpawns
            /\ calls' = Append(calls, [op |-> "tcp_listen", out |-> f,
                                       result |-> IoError, proto |-> NoCur.proto,
                                       seen |-> Len(published)])
    /\ UNCHANGED <<cids, pool, conns, chans, published, issued, attempts, rejected, rcvd, late>>
    /\ UNCHANGED <<dataVars, callVars, boundVars, connVars, drainVars, lockVars, sinkVars, traceVars>>

\* What can go wrong in with_tcp_connect: opening the socket, setting
\* no-delay on it, reading its peer address.
ConnectOutcomes == {"ok", "connect", "nodelay", "peer_addr"}

\* Mutant: a failure to set no-delay is tolerated.
WithTcpConnectLax(out) ==
    IF out \in {"ok", "nodelay"}
    THEN [result |-> [err |-> "Ok", kind |-> "Ok"], proto |-> NewTcp]
    ELSE [result |-> IoError, proto |-> NoCur.proto]

\* with_tcp_connect: every failure is mapped to NetworkConnectError::Io and
\* returned by `?`; Protocols::new_tcp is reached only when nothing failed.
WithTcpConnect(out) ==
    IF out = "ok"
    THEN [result |-> [err |-> "Ok", kind |-> "Ok"], proto |-> NewTcp]
    ELSE [result |-> IoError, proto |-> NoCur.proto]

\* A with_tcp_connect call with outcome out.
TcpConnect(out) ==
    /\ Len(calls) < MaxCalls
    /\ calls' = Append(calls, [op |-> "tcp_connect", out |-> out,
                               result |-> WithTcpConnect(out).result,
                               proto |-> WithTcpConnect(out).proto,
                               seen |-> Len(published)])
    /\ UNCHANGED <<cids, pool, listeners, conns, chans, published, issued, attempts,
                   rejected, rcvd, late>>
    /\ UNCHANGED <<dataVars, callVars, boundVars, connVars, drainVars, lockVars, sinkVars, traceVars>>

\* Mutant: the accept task is spawned and Ok returned without the insert.
MpscInsertSkipped(addr) ==
    /\ Len(listeners) < MaxListeners
    /\ listeners' = Append(listeners,
          [kind |-> "Mpsc", addr |-> addr, pc |-> "select", cancel |-> "armed",
           queue |-> <<>>, cur |-> NoCur])
    /\ UNCHANGED <<cids, pool, conns, chans, published, issued, attempts, rejected, rcvd, late, calls>>
    /\ UNCHANGED <<dataVars, callVars, boundVars, connVars, drainVars, sinkVars, traceVars>>

\* Mutant: an address that has an entry keeps it (entry().or_insert).
MpscInsertKeepsFirst(addr) ==
    /\ Len(listeners) < MaxListeners
    /\ listeners' = Append(listeners,
          [kind |-> "Mpsc", addr |-> addr, pc |-> "select", cancel |-> "armed",
           queue |-> <<>>, cur |-> NoCur])
    /\ pool' = [a \in DOMAIN pool \cup {addr} |->
                   IF a \in DOMAIN pool THEN pool[a] ELSE Len(listeners) + 1]
    /\ UNCHANGED <<cids, conns, chans, published, issued, attempts, rejected, rcvd, late, calls>>
    /\ UNCHANGED <<dataVars, callVars, boundVars, connVars, drainVars, sinkVars, traceVars>>

\* with_mpsc_listen, from the insert on: insert the new rendezvous sender
\* under addr (replacing any entry there), then spawn the accept task.
MpscInsert(addr) ==
    /\ Len(listeners) < MaxListeners
    /\ listeners' = Append(listeners,
          [kind |-> "Mpsc", addr |-> addr, pc |-> "select", cancel |-> "armed",
           queue |-> <<>>, cur |-> NoCur])
    /\ pool' = [a \in DOMAIN pool \cup {addr} |->
                   IF a = addr THEN Len(listeners) + 1 ELSE pool[a]]
    /\ UNCHANGED <<cids, conns, chans, published, issued, attempts, rejected, rcvd, late, calls>>
    /\ UNCHANGED <<dataVars, callVars, boundVars, connVars, drainVars, sinkVars, traceVars>>

\* with_mpsc_listen, the lock taken and released within the step.
MpscListen(addr) == MpscInsert(addr) /\ UNCHANGED lockVars

\* A peer attempts a stream-socket connection to listener l; accept() will
\* return Ok for it or fail (ok = FALSE).
TcpAttempt(l, ok) ==
    /\ l \in 1 .. Len(listeners)
    /\ listeners[l].kind = "Tcp"
    /\ listeners[l].pc # "exited"
    /\ Len(attempts) < MaxAttempts
    /\ attempts' = Append(attempts, l)
    /\ listeners' = SetListener(l, [listeners[l] EXCEPT
           !.queue = Append(@, [id |-> Len(attempts) + 1, ok |-> ok])])
    /\ UNCHANGED <<cids, pool, conns, chans, published, issued, rejected, rcvd, late, calls>>
    /\ UNCHANGED <<dataVars, callVars, boundVars, connVars, drainVars, lockVars, sinkVars, traceVars>>

\* Mutant: only a signal that was sent completes the cancellation branch.
CancelReadyFiredOnly(c) == c = "fired"

\* select!: `_ = &mut end_receiver` is ready once the one-shot receiver
\* resolves, with Ok(()) (the signal was sent) or with RecvError (its sender
\* was dropped); the pattern `_` takes both.
CancelReady(c) == c \in {"fired", "dropped"}

\* The sender of the one-shot cancellation signal is dropped unused.
DropCancel(l) ==
    /\ l \in 1 .. Len(listeners)
    /\ listeners[l].cancel = "armed"
    /\ listeners' = SetListener(l, [listeners[l] EXCEPT !.cancel = "dropped"])
    /\ UNCHANGED <<cids, pool, conns, chans, published, issued, attempts, rejected, rcvd, late, calls>>
    /\ UNCHANGED <<dataVars, callVars, boundVars, connVars, drainVars, lockVars, sinkVars, traceVars>>

\* The sender of the one-shot cancellation signal fires it.
FireCancel(l) ==
    /\ l \in 1 .. Len(listeners)
    /\ listeners[l].cancel = "armed"
    /\ listeners' = SetListener(l, [listeners[l] EXCEPT !.cancel = "fired"])
    /\ UNCHANGED <<cids, pool, conns, chans, published, issued, attempts, rejected, rcvd, late, calls>>
    /\ UNCHANGED <<dataVars, callVars, boundVars, connVars, drainVars, lockVars, sinkVars, traceVars>>

\* Mutant: the exiting accept task takes the channels of the connections it
\* accepted down with it.
ListenerExitClosesConns(l) ==
    /\ l \in 1 .. Len(listeners)
    /\ listeners[l].pc = "select"
    /\ CancelReady(listeners[l].cancel)
    /\ listeners' = SetListener(l, [listeners[l] EXCEPT !.pc = "exited", !.queue = <<>>])
    /\ chans' = [i \in DOMAIN chans |-> <<>>]
    /\ UNCHANGED <<cids, pool, conns, published, issued, attempts, rejected, rcvd, late, calls>>
    /\ UNCHANGED <<dataVars, callVars, boundVars, connVars, drainVars, lockVars, sinkVars, traceVars>>

\* Mutant: the exiting accept task takes its registry entry out of MPSC_POOL.
ListenerExitUnregisters(l) ==
    /\ l \in 1 .. Len(listeners)
    /\ listeners[l].pc = "select"
    /\ CancelReady(listeners[l].cancel)
    /\ listeners' = SetListener(l, [listeners[l] EXCEPT !.pc = "exited", !.queue = <<>>])
    /\ pool' = [a \in {b \in DOMAIN pool : pool[b] # l} |-> pool[a]]
    /\ UNCHANGED <<cids, conns, chans, published, issued, attempts, rejected, rcvd, late, calls>>
    /\ UNCHANGED <<dataVars, callVars, boundVars, connVars, drainVars, lockVars, sinkVars, traceVars>>

\* select!: the cancellation branch is ready and is the one taken.
ListenerExit(l) ==
    /\ l \in 1 .. Len(listeners)
    /\ listeners[l].pc = "select"
    /\ CancelReady(listeners[l].cancel)
    /\ listeners' = SetListener(l, [listeners[l] EXCEPT !.pc = "exited", !.queue = <<>>])
    /\ UNCHANGED <<cids, pool, conns, chans, published, issued, attempts, rejected, rcvd, late, calls>>
    /\ UNCHANGED <<dataVars, callVars, boundVars, connVars, drainVars, lockVars, sinkVars, traceVars>>

\* select!: mpsc_r.recv() yields None (no sender left, nothing queued): the
\* while-let ends.
MpscListenerClosed(l) ==
    /\ l \in 1 .. Len(listeners)
    /\ listeners[l].kind = "Mpsc"
    /\ listeners[l].pc = "select"
    /\ listeners[l].queue = <<>>
    /\ ~SendersAlive(l)
    /\ listeners' = SetListener(l, [listeners[l] EXCEPT !.pc = "exited"])
    /\ UNCHANGED <<cids, pool, conns, chans, published, issued, attempts, rejected, rcvd, late, calls>>
    /\ UNCHANGED <<dataVars, callVars, boundVars, connVars, drainVars, lockVars, sinkVars, traceVars>>

\* Mutant: a failed accept ends the accept loop.
FailedAcceptBreaks == "exited"

\* accept() returned Err: the attempt is ignored and the loop continues.
FailedAcceptPc == "select"

\* select!: listener.accept() is ready and is the branch taken (Tcp).
TcpAccept(l) ==
    /\ l \in 1 .. Len(listeners)
    /\ listeners[l].kind = "Tcp"
    /\ listeners[l].pc = "select"
    /\ listeners[l].queue # <<>>
    /\ LET a == Head(listeners[l].queue)
       IN IF a.ok
          THEN /\ cids' = FetchAdd(cids)
               /\ issued' = Append(issued, cids)
               /\ listeners' = SetListener(l, [listeners[l] EXCEPT
                      !.queue = Tail(@), !.pc = "publish",
                      !.cur = [proto |-> NewTcp, cid |-> cids, req |-> a.id]])
               /\ UNCHANGED rejected
          ELSE /\ listeners' = SetListener(l, [listeners[l] EXCEPT
                      !.queue = Tail(@), !.pc = FailedAcceptPc])
               /\ rejected' = rejected \cup {<<a.id, l>>}
               /\ UNCHANGED <<cids, issued>>
    /\ UNCHANGED <<pool, conns, chans, published, attempts, rcvd, late, calls>>
    /\ UNCHANGED <<dataVars, callVars, boundVars, connVars, drainVars, lockVars, sinkVars, traceVars>>

\* select!: mpsc_r.recv() is ready and is the branch taken (Mpsc): create the
\* channel towards the listener side, reply with its sender, take an id.
MpscAccept(l) ==
    /\ l \in 1 .. Len(listeners)
    /\ listeners[l].kind = "Mpsc"
    /\ listeners[l].pc = "select"
    /\ listeners[l].queue # <<>>
    /\ LET k == Head(listeners[l].queue)
           b == Len(chans) + 1
       IN /\ chans' = Append(chans, <<>>)
          /\ IF conns[k].pc = "await"
             THEN /\ conns' = [conns EXCEPT ![k].reply = b]
                  /\ UNCHANGED rejected
             ELSE \* the one-shot send fails: "mpsc listen aborted" is logged
                  /\ rejected' = rejected \cup {<<k, l>>}
                  /\ UNCHANGED conns
          /\ cids' = FetchAdd(cids)
          /\ issued' = Append(issued, cids)
          /\ listeners' = SetListener(l, [listeners[l] EXCEPT
                 !.queue = Tail(@), !.pc = "publish",
                 !.cur = [proto |-> ListenerProtocols(conns[k].rx, b),
                          cid |-> cids, req |-> k]])
    /\ UNCHANGED <<pool, published, attempts, rcvd, late, calls>>
    /\ UNCHANGED <<dataVars, callVars, boundVars, connVars, drainVars, lockVars, sinkVars, traceVars>>

\* Mutant: a failed send to the sink ends the accept loop.
FailedPublishBreaks == "exited"

\* `let _ = c2s_protocol_s.send(..)`: the result is ignored and the loop goes
\* back to its select!.
FailedPublishPc == "select"

\* Mutant: the pair overtakes what the sink already holds.
ListenerPublishFront(l) ==
    /\ l \in 1 .. Len(listeners)
    /\ listeners[l].pc = "publish"
    /\ sink = "live"
    /\ published' =
          <<[proto |-> listeners[l].cur.proto, cid |-> listeners[l].cur.cid,
             req |-> listeners[l].cur.req, by |-> l]>> \o published
    /\ listeners' = SetListener(l, [listeners[l] EXCEPT !.pc = "select", !.cur = NoCur])
    /\ UNCHANGED <<cids, pool, conns, chans, issued, attempts, rejected, rcvd, late, calls>>
    /\ UNCHANGED <<dataVars, callVars, boundVars, connVars, drainVars, lockVars, sinkVars, traceVars>>

\* c2s_protocol_s.send((Protocols, cid)), then back to the select!.
ListenerPublish(l) ==
    /\ l \in 1 .. Len(listeners)
    /\ listeners[l].pc = "publish"
    /\ LET pair == [proto |-> listeners[l].cur.proto, cid |-> listeners[l].cur.cid,
                    req |-> listeners[l].cur.req, by |-> l]
       IN IF sink = "live"
          THEN /\ published' = Append(published, pair)
               /\ listeners' = SetListener(l, [listeners[l] EXCEPT
                      !.pc = "select", !.cur = NoCur])
               /\ UNCHANGED unpublished
          ELSE \* `let _ =`: the SendError and the pair in it are dropped
               /\ unpublished' = Append(unpublished, pair)
               /\ listeners' = SetListener(l, [listeners[l] EXCEPT
                      !.pc = FailedPublishPc, !.cur = NoCur])
               /\ UNCHANGED published
    /\ UNCHANGED <<sink, observed>>
    /\ UNCHANGED <<cids, pool, conns, chans, issued, attempts, rejected, rcvd, late, calls>>
    /\ UNCHANGED <<dataVars, callVars, boundVars, connVars, drainVars, lockVars, traceVars>>

----------------------------------------------------------------------------
(* with_mpsc_connect *)

\* The error with_mpsc_connect returns when the registry has no entry.
NoEntryError == [err |-> "Io", kind |-> "NotConnected"]

BrokenPipeError == [err |-> "Io", kind |-> "BrokenPipe"]

NoResult == [err |-> "None", kind |-> "None"]

OkResult == [err |-> "Ok", kind |-> "Ok"]

\* The call did not return: its future was dropped while it awaited the reply.
GaveUp == [err |-> "None", kind |-> "GaveUp"]

\* with_mpsc_connect, the lookup: clone the sender found under addr, or fail.
MpscLookup(addr) ==
    /\ Len(conns) < MaxConnects
    /\ conns' = Append(conns,
          IF addr \in DOMAIN pool
          THEN [pc |-> "send", addr |-> addr, target |-> pool[addr], rx |-> 0,
                reply |-> 0, proto |-> NoCur.proto, result |-> NoResult]
          ELSE [pc |-> "done", addr |-> addr, target |-> 0, rx |-> 0,
                reply |-> 0, proto |-> NoCur.proto, result |-> NoEntryError])
    /\ UNCHANGED <<cids, pool, listeners, chans, published, issued, attempts, rejected, rcvd, late, calls>>
    /\ UNCHANGED <<dataVars, callVars, boundVars, connVars, drainVars, sinkVars, traceVars>>

\* with_mpsc_connect up to the lookup, the lock taken and released within
\* the step.
MpscConnect(addr) == MpscLookup(addr) /\ UNCHANGED lockVars

\* Create the channel towards the connector and the one-shot reply channel,
\* send both to the listener; a closed rendezvous channel is a broken pipe.
ConnSend(k) ==
    /\ k \in 1 .. Len(conns)
    /\ conns[k].pc = "send"
    /\ LET l == conns[k].target
       IN IF listeners[l].pc = "exited"
          THEN /\ conns' = [conns EXCEPT ![k].pc = "done", ![k].result = BrokenPipeError]
               /\ UNCHANGED <<listeners, chans>>
          ELSE /\ chans' = Append(chans, <<>>)
               /\ conns' = [conns EXCEPT ![k].pc = "await", ![k].rx = Len(chans) + 1]
               /\ listeners' = SetListener(l, [listeners[l] EXCEPT !.queue = Append(@, k)])
    /\ UNCHANGED <<cids, pool, published, issued, attempts, rejected, rcvd, late, calls>>
    /\ UNCHANGED <<dataVars, callVars, boundVars, connVars, drainVars, lockVars, sinkVars, traceVars>>

\* Mutant: the await resolves only with a reply.
ConnAwaitHangs(k) ==
    /\ k \in 1 .. Len(conns)
    /\ conns[k].pc = "await"
    /\ conns[k].reply # 0
    /\ conns' = [conns EXCEPT ![k].pc = "done", ![k].result = OkResult,
                    ![k].proto = ConnectorProtocols(conns[k].reply, conns[k].rx)]
    /\ UNCHANGED <<cids, pool, listeners, chans, published, issued, attempts, rejected, rcvd, late, calls>>
    /\ UNCHANGED <<dataVars, callVars, boundVars, connVars, drainVars, lockVars, sinkVars, traceVars>>

\* The one-shot reply resolves: with the listener's sender, or with an error
\* because the listener dropped the request unanswered.
ConnAwait(k) ==
    /\ k \in 1 .. Len(conns)
    /\ conns[k].pc = "await"
    /\ \/ /\ conns[k].reply # 0
          /\ conns' = [conns EXCEPT ![k].pc = "done", ![k].result = OkResult,
                          ![k].proto = ConnectorProtocols(conns[k].reply, conns[k].rx)]
       \/ /\ conns[k].reply = 0
          /\ listeners[conns[k].target].pc = "exited"
          /\ conns' = [conns EXCEPT ![k].pc = "done", ![k].result = BrokenPipeError]
    /\ UNCHANGED <<cids, pool, listeners, chans, published, issued, attempts, rejected, rcvd, late, calls>>
    /\ UNCHANGED <<dataVars, callVars, boundVars, connVars, drainVars, lockVars, sinkVars, traceVars>>

\* The connector gives up waiting: the with_mpsc_connect future is dropped at
\* its await, and with it the one-shot receiver and the channel's receiver.
ConnGiveUp(k) ==
    /\ k \in 1 .. Len(conns)
    /\ conns[k].pc = "await"
    /\ conns[k].reply = 0
    /\ conns' = [conns EXCEPT ![k].pc = "done", ![k].result = GaveUp]
    /\ UNCHANGED <<cids, pool, listeners, chans, published, issued, attempts, rejected, rcvd, late, calls>>
    /\ UNCHANGED <<dataVars, callVars, boundVars, connVars, drainVars, lockVars, sinkVars, traceVars>>

----------------------------------------------------------------------------
(* The lock of MPSC_POOL, step by step: a call waits in lock().await, is    *)
(* granted the guard, does its one map operation, and the guard is dropped. *)

\* The calls of kind op that are waiting for the lock or hold it.
PendingOps(op) ==
    Cardinality({i \in 1 .. Len(lockQ) : lockQ[i].op = op})
    + (IF poolLock.op = op THEN 1 ELSE 0)

\* Mutant: with_mpsc_connect binds the guard to a variable and so keeps it
\* until it returns.
GuardKept(g) == IF g.op = "connect" THEN [op |-> "await", addr |-> g.addr] ELSE NoHolder

\* The guard is a temporary of the statement that locks: it is dropped at
\* the end of that statement, after the get(..).clone() or the insert.
GuardAfter(g) == NoHolder

\* A with_mpsc_listen (op = "listen") or with_mpsc_connect (op = "connect")
\* call reaches MPSC_POOL.lock().await.
LockRequest(op, addr) ==
    /\ op = "listen" => Len(listeners) + PendingOps("listen") < MaxListeners
    /\ op = "connect" => Len(conns) + PendingOps("connect") < MaxConnects
    /\ lockQ' = Append(lockQ, [op |-> op, addr |-> addr])
    /\ UNCHANGED poolLock
    /\ UNCHANGED <<dataVars, callVars, listenVars, boundVars, connVars, drainVars, sinkVars, traceVars>>

\* The mutex is free: the call that has waited longest gets the guard.
LockGrant ==
    /\ poolLock = NoHolder
    /\ lockQ # <<>>
    /\ poolLock' = Head(lockQ)
    /\ lockQ' = Tail(lockQ)
    /\ UNCHANGED <<dataVars, callVars, listenVars, boundVars, connVars, drainVars, sinkVars, traceVars>>

\* MPSC_POOL.lock().await.insert(addr, mpsc_s); and the spawn behind it.
LockedInsert ==
    /\ poolLock.op = "listen"
    /\ MpscInsert(poolLock.addr)
    /\ poolLock' = GuardAfter(poolLock)
    /\ UNCHANGED lockQ

\* MPSC_POOL.lock().await.get(&addr).ok_or_else(..)?.clone();
LockedLookup ==
    /\ poolLock.op = "connect"
    /\ MpscLookup(poolLock.addr)
    /\ poolLock' = GuardAfter(poolLock)
    /\ UNCHANGED lockQ

----------------------------------------------------------------------------
(* Traffic on established in-process connections *)

\* The Protocols values in use: <<"c", k>> is what connect call k returned,
\* <<"s", i>> is the i-th published value.
Endpoints ==
    {<<"c", k>> : k \in {k \in 1 .. Len(conns) : conns[k].result = OkResult}}
    \cup {<<"s", i>> : i \in {i \in 1 .. Len(published) :
                                 published[i].proto.variant = "Mpsc"}}

ProtoOf(e) == IF e[1] = "c" THEN conns[e[2]].proto ELSE published[e[2]].proto

Queued == LET RECURSIVE Sum(_)
              Sum(i) == IF i = 0 THEN 0 ELSE Len(chans[i]) + Sum(i - 1)
          IN Sum(Len(chans))

\* The accept task that set up endpoint e's connection.
ListenerOf(e) == IF e[1] = "c" THEN conns[e[2]].target ELSE published[e[2]].by

\* The history entry of an operation on endpoint e, kept when the accept task
\* of its connection has already exited.
LateOp(op, e) ==
    IF listeners[ListenerOf(e)].pc = "exited" THEN {<<op, e>>} ELSE {}

\* The receiver of the channel endpoint e sends into still exists: the
\* connector that created it did not give up.
ReceiverAlive(e) == e[1] = "s" => conns[published[e[2]].req].result # GaveUp

\* MpscDrain::send on endpoint e's send half; the message carries its sender.
EpSend(e) ==
    /\ e \in Endpoints
    /\ Queued + Cardinality(rcvd) < MaxMsgs
    /\ ReceiverAlive(e)
    /\ MpscHasRoom(chans[ProtoOf(e).tx], 1)
    /\ chans' = [chans EXCEPT ![ProtoOf(e).tx] = MpscDrainSend(@, e)]
    /\ late' = late \cup LateOp("send", e)
    /\ UNCHANGED <<cids, pool, listeners, conns, published, issued, attempts, rejected, rcvd, calls>>
    /\ UNCHANGED <<dataVars, callVars, boundVars, connVars, drainVars, lockVars, sinkVars, traceVars>>

\* MpscSink::recv on endpoint e's receive half.
EpRecv(e) ==
    /\ e \in Endpoints
    /\ chans[ProtoOf(e).rx] # <<>>
    /\ rcvd' = rcvd \cup {[by |-> e, msg |-> Head(chans[ProtoOf(e).rx])]}
    /\ chans' = [chans EXCEPT ![ProtoOf(e).rx] = Tail(@)]
    /\ late' = late \cup LateOp("recv", e)
    /\ UNCHANGED <<cids, pool, listeners, conns, published, issued, attempts, rejected, calls>>
    /\ UNCHANGED <<dataVars, callVars, boundVars, connVars, drainVars, lockVars, sinkVars, traceVars>>

\* Request k's connection has been published to the new-connection sink.
IsPublished(k) == \E i \in 1 .. Len(published) : published[i].req = k

\* The numbers of the messages in channel b, oldest first.
Numbers(b) == [i \in 1 .. Len(chans[b]) |-> chans[b][i].n]

\* How many messages of connector k have been received.
RecvdOf(k) == Cardinality({r \in rcvd : r.msg.from = <<"c", k>>})

\* MpscDrain::send on the send half of the value with_mpsc_connect call k
\* returned; the message carries its number and whether the server-side value
\* had been published when it was sent.
EarlySend(k) ==
    /\ k \in 1 .. Len(conns)
    /\ conns[k].result = OkResult
    /\ LET b == conns[k].proto.tx
       IN /\ Len(chans[b]) + RecvdOf(k) < MaxEarly
          /\ MpscHasRoom(chans[b], 1)
          /\ chans' = [chans EXCEPT ![b] =
                MpscDrainSend(@, [from |-> <<"c", k>>,
                                  n |-> Len(chans[b]) + RecvdOf(k) + 1,
                                  early |-> ~IsPublished(k)])]
    /\ UNCHANGED <<cids, pool, listeners, conns, published, issued, attempts, rejected, rcvd, late, calls>>
    /\ UNCHANGED <<dataVars, callVars, boundVars, connVars, drainVars, lockVars, sinkVars, traceVars>>

----------------------------------------------------------------------------
(* DeferredTracer (util.rs) *)

\* print: const MAX_LOGS: u32 = 10_000; const MAX_SECS: u64 = 1.
MAX_LOGS == 10000
MAX_SECS == 1

\* Counts reach 2^32 (last_cnt is a u32): a count is kept in two limbs of 16
\* bits, value hi * Limb + lo.
Limb == 65536

Cnt(h, l) == [hi |-> h, lo |-> l]

CntZero == Cnt(0, 0)

\* u32::MAX
U32Max == Cnt(Limb - 1, Limb - 1)

\* c + 1 where it cannot overflow (a u64 count below 2^48).
CntInc(c) == IF c.lo = Limb - 1 THEN Cnt(c.hi + 1, 0) ELSE Cnt(c.hi, c.lo + 1)

\* c > n, for n < Limb.
CntGt(c, n) == c.hi > 0 \/ c.lo > n

TraceItems == {"a", "b"}

\* HashMap::new()
NoItems == [i \in {} |-> CntZero]

\* *self.items.entry(t).or_default() += 1
ItemsInc(items, t) ==
    [i \in DOMAIN items \cup {t} |->
        IF i = t
        THEN CntInc(IF t \in DOMAIN items THEN items[t] ELSE CntZero)
        ELSE items[i]]

\* self.last_cnt += 1 on a u32 where overflow is not checked: wraps to 0.
LastCntInc(c) == IF c = U32Max THEN CntZero ELSE CntInc(c)

\* Mutant: print leaves the counter as it is.
PrintKeepsCnt(c) == c

\* print: self.last_cnt = 0
PrintResetsCnt(c) == CntZero

\* Mutant: the threshold itself already counts as exceeded.
LogsReached(c) == CntGt(c, MAX_LOGS - 1)

\* print: self.last_cnt > MAX_LOGS
LogsExceeded(c) == CntGt(c, MAX_LOGS)

\* self.last.elapsed().as_secs(): whole seconds since `last`.
ElapsedSecs(last, now) == (now - last) \div TicksPerSec

\* DeferredTracer::new, the clock's origin taken at the call.
NewTracer == [log_enabled |-> TRUE, items |-> NoItems, last |-> 0, last_cnt |-> CntZero]

NoRet == [call |-> 0, some |-> FALSE, map |-> NoItems]

\* A tracer just created.
TraceIdle ==
    /\ tracer = NewTracer
    /\ tNow = 0
    /\ tChecks = FALSE
    /\ tPanicked = FALSE
    /\ tCalls = 0
    /\ tRet = NoRet
    /\ tLogged = NoItems
    /\ tLogAt = 0

\* The numbers of log("a") calls a tracer starts the model with: none, one
\* short of MAX_LOGS, two short of 2^32.
TraceStarts == {CntZero, Cnt(0, MAX_LOGS - 1), Cnt(Limb - 1, Limb - 2)}

\* DeferredTracer::log
TracerLog(t) ==
    /\ ~tPanicked
    /\ tCalls < MaxTraceCalls
    /\ tCalls' = tCalls + 1
    /\ tLogged' = ItemsInc(tLogged, t)
    /\ tLogAt' = tNow
    /\ IF tracer.log_enabled
       THEN IF tracer.last_cnt = U32Max /\ tChecks
            THEN \* `attempt to add with overflow`, items and last already written
                 /\ tracer' = [tracer EXCEPT !.items = ItemsInc(@, t), !.last = tNow]
                 /\ tPanicked' = TRUE
            ELSE /\ tracer' = [tracer EXCEPT !.items = ItemsInc(@, t), !.last = tNow,
                                            !.last_cnt = LastCntInc(@)]
                 /\ UNCHANGED tPanicked
       ELSE UNCHANGED <<tracer, tPanicked>>
    /\ UNCHANGED <<tNow, tChecks, tRet>>
    /\ UNCHANGED <<dataVars, callVars, listenVars, boundVars, connVars, drainVars, lockVars, sinkVars>>

\* DeferredTracer::print
TracerPrint ==
    /\ ~tPanicked
    /\ tCalls < MaxTraceCalls
    /\ tCalls' = tCalls + 1
    /\ IF /\ tracer.log_enabled
          /\ \/ LogsExceeded(tracer.last_cnt)
             \/ ElapsedSecs(tracer.last, tNow) >= MAX_SECS
       THEN /\ tracer' = [tracer EXCEPT !.last_cnt = PrintResetsCnt(@), !.items = NoItems]
            /\ tRet' = [call |-> tCalls + 1, some |-> TRUE, map |-> tracer.items]
            /\ tLogged' = NoItems
       ELSE /\ tRet' = [call |-> tCalls + 1, some |-> FALSE, map |-> NoItems]
            /\ UNCHANGED <<tracer, tLogged>>
    /\ UNCHANGED <<tNow, tChecks, tPanicked, tLogAt>>
    /\ UNCHANGED <<dataVars, callVars, listenVars, boundVars, connVars, drainVars, lockVars, sinkVars>>

\* Time passes.
TracerTick ==
    /\ tNow < MaxTicks
    /\ tNow' = tNow + 1
    /\ UNCHANGED <<tracer, tChecks, tPanicked, tCalls, tRet, tLogged, tLogAt>>
    /\ UNCHANGED <<dataVars, callVars, listenVars, boundVars, connVars, drainVars, lockVars, sinkVars>>

----------------------------------------------------------------------------
\* The listener side at rest: no listener, no connect call, counter at zero.
ListenIdle ==
    /\ cids = 0
    /\ pool = <<>>
    /\ listeners = <<>>
    /\ conns = <<>>
    /\ chans = <<>>
    /\ published = <<>>
    /\ issued = <<>>
    /\ attempts = <<>>
    /\ rejected = {}
    /\ rcvd = {}
    /\ late = {}
    /\ calls = <<>>
    /\ poolLock = NoHolder
    /\ lockQ = <<>>
    /\ sink = "live"
    /\ unpublished = <<>>
    /\ observed = {}

\* No connection is between construction and split.
ConnIdle ==
    /\ sides = <<>>
    /\ links = <<>>
    /\ halfOf = <<>>
    /\ halfLog = <<>>

\* No byte-level socket is in use.
DrainIdle ==
    /\ scratch = <<>>
    /\ writes = <<>>
    /\ chunks = <<>>

\* The capacity model at rest.
BoundIdle ==
    /\ bq = <<>>
    /\ bSent = 0
    /\ bRecvd = 0
    /\ bPending = FALSE
    /\ bInOrder = TRUE
    /\ bResumed = FALSE
    /\ bRecvHalf = "live"
    /\ bLast = [res |-> "none", waited |-> FALSE]

DataInit ==
    /\ ListenIdle /\ TraceIdle
    /\ DrainIdle
    /\ BoundIdle
    /\ ConnIdle
    /\ variant \in {"Tcp", "Mpsc"}
    /\ sendHalf = "live"
    /\ streams = <<>>
    /\ store = <<>>
    /\ wire = <<>>
    /\ sockErr = FALSE
    /\ recvHalf = "idle"
    /\ recvBuf = <<>>
    /\ sentLog = <<>>
    /\ txLog = <<>>
    /\ recvLog = <<>>
    /\ sendFails = 0
    /\ lastFlush = NoFlush

DataNext ==
    \/ \E ev \in OpenEvents : SendOpen(ev)
    \/ \E ev \in MessageEvents : SendMessage(ev)
    \/ \E b \in Budgets : Flush(b)
    \/ DropSend
    \/ DropRecv
    \/ NetReset
    \/ RecvCall
    \/ TcpRecvEvent
    \/ \E n \in TcpReadSizes(wire) : TcpRecvRead(n)
    \/ TcpRecvClosed
    \/ MpscRecvEvent
    \/ MpscRecvClosed

DataSpec == DataInit /\ [][DataNext]_vars

\* A recv() that can make progress eventually does (its task is polled).
FairDataSpec == DataSpec /\ WF_vars(RecvStep)

\* A send half on which both streams are open, each with the priority its
\* open-stream event carried, and whose earlier traffic has been delivered;
\* the histories start here.
FlushInit ==
    /\ ListenIdle /\ TraceIdle
    /\ DrainIdle
    /\ BoundIdle
    /\ ConnIdle
    /\ variant \in {"Tcp", "Mpsc"}
    /\ sendHalf = "live"
    /\ streams \in [Sids -> Prios]
    /\ store = <<>>
    /\ wire = <<>>
    /\ sockErr = FALSE
    /\ recvHalf = "idle"
    /\ recvBuf = <<>>
    /\ sentLog = <<>>
    /\ txLog = <<>>
    /\ recvLog = <<>>
    /\ sendFails = 0
    /\ lastFlush = NoFlush

FlushNext ==
    \/ \E ev \in MessageEvents : SendMessage(ev)
    \/ \E b \in Budgets : Flush(b)

FlushSpec == FlushInit /\ [][FlushNext]_vars

\* The data path at rest, while the listener side runs.
DataIdle ==
    /\ variant = "Mpsc"
    /\ sendHalf = "live"
    /\ streams = <<>>
    /\ store = <<>>
    /\ wire = <<>>
    /\ sockErr = FALSE
    /\ recvHalf = "idle"
    /\ recvBuf = <<>>
    /\ sentLog = <<>>
    /\ txLog = <<>>
    /\ recvLog = <<>>
    /\ sendFails = 0
    /\ lastFlush = NoFlush

Init == ListenIdle /\ DataIdle /\ BoundIdle /\ ConnIdle /\ DrainIdle /\ TraceIdle

ListenerStep(l) ==
    \/ ListenerExit(l)
    \/ MpscListenerClosed(l)
    \/ TcpAccept(l)
    \/ MpscAccept(l)
    \/ ListenerPublish(l)

Next ==
    \/ TcpListen("none")
    \/ \E a \in Addrs : MpscListen(a)
    \/ \E l \in 1 .. MaxListeners, ok \in BOOLEAN : TcpAttempt(l, ok)
    \/ \E l \in 1 .. MaxListeners : FireCancel(l)
    \/ \E l \in 1 .. MaxListeners : ListenerExit(l)
    \/ \E l \in 1 .. MaxListeners : MpscListenerClosed(l)
    \/ \E l \in 1 .. MaxListeners : TcpAccept(l)
    \/ \E l \in 1 .. MaxListeners : MpscAccept(l)
    \/ \E l \in 1 .. MaxListeners : ListenerPublish(l)
    \/ \E a \in Addrs : MpscConnect(a)
    \/ \E k \in 1 .. MaxConnects : ConnSend(k)
    \/ \E k \in 1 .. MaxConnects : ConnAwait(k)
    \/ \E k \in 1 .. MaxConnects : ConnGiveUp(k)

Spec == Init /\ [][Next]_vars

\* The stream-socket listeners alone.
TcpNext ==
    \/ TcpListen("none")
    \/ \E l \in 1 .. MaxListeners, ok \in BOOLEAN : TcpAttempt(l, ok)
    \/ \E l \in 1 .. MaxListeners : FireCancel(l)
    \/ \E l \in 1 .. MaxListeners : ListenerExit(l)
    \/ \E l \in 1 .. MaxListeners : TcpAccept(l)
    \/ \E l \in 1 .. MaxListeners : ListenerPublish(l)

\* A spawned accept task that can take a step eventually takes one.
TcpFairSpec ==
    Init /\ [][TcpNext]_vars /\ \A l \in 1 .. MaxListeners : WF_vars(ListenerStep(l))

\* The stream-socket side with the calls that can fail: with_tcp_listen with
\* a failing bind, with_tcp_connect.
CallNext ==
    \/ \E f \in BindFailures \cup {"none"} : TcpListen(f)
    \/ \E out \in ConnectOutcomes : TcpConnect(out)
    \/ \E l \in 1 .. MaxListeners, ok \in BOOLEAN : TcpAttempt(l, ok)
    \/ \E l \in 1 .. MaxListeners : FireCancel(l)
    \/ \E l \in 1 .. MaxListeners : ListenerExit(l)
    \/ \E l \in 1 .. MaxListeners : TcpAccept(l)
    \/ \E l \in 1 .. MaxListeners : ListenerPublish(l)

CallSpec == Init /\ [][CallNext]_vars

\* Both kinds of listener with both ways of ending the cancellation signal;
\* the requests of connectors are what the cancellation branch races with.
CancelNext ==
    \/ TcpListen("none")
    \/ \E a \in Addrs : MpscListen(a)
    \/ \E a \in Addrs : MpscConnect(a)
    \/ \E k \in 1 .. MaxConnects : ConnSend(k)
    \/ \E l \in 1 .. MaxListeners : FireCancel(l)
    \/ \E l \in 1 .. MaxListeners : DropCancel(l)
    \/ \E l \in 1 .. MaxListeners : ListenerExit(l)
    \/ \E l \in 1 .. MaxListeners : MpscListenerClosed(l)
    \/ \E l \in 1 .. MaxListeners : MpscAccept(l)
    \/ \E l \in 1 .. MaxListeners : ListenerPublish(l)

\* A spawned accept task that can take a step eventually takes one.
FairCancelSpec ==
    Init /\ [][CancelNext]_vars /\ \A l \in 1 .. MaxListeners : WF_vars(ListenerStep(l))

\* The in-process rendezvous with connectors that send as soon as their call
\* has returned.
EarlyNext ==
    \/ \E a \in Addrs : MpscListen(a)
    \/ \E a \in Addrs : MpscConnect(a)
    \/ \E k \in 1 .. MaxConnects : ConnSend(k)
    \/ \E k \in 1 .. MaxConnects : ConnAwait(k)
    \/ \E l \in 1 .. MaxListeners : MpscAccept(l)
    \/ \E l \in 1 .. MaxListeners : ListenerPublish(l)
    \/ \E k \in 1 .. MaxConnects : EarlySend(k)
    \/ \E e \in Endpoints : EpRecv(e)

EarlySpec == Init /\ [][EarlyNext]_vars

\* The attempt numbers a peer can carry: stream-socket attempts and
\* in-process connectors.
MaxPeers == IF MaxAttempts > MaxConnects THEN MaxAttempts ELSE MaxConnects

\* The consumer of the new-connection sink goes away: the receiver of
\* c2s_protocol_s is dropped.
SinkGone ==
    /\ sink = "live"
    /\ sink' = "gone"
    /\ UNCHANGED <<unpublished, observed>>
    /\ UNCHANGED <<dataVars, callVars, listenVars, boundVars, connVars, drainVars, lockVars, traceVars>>

\* The server-side value of the connection listener l accepted for attempt
\* req was dropped with the SendError that carried it back.
ServerSideDropped(l, req) ==
    \E i \in 1 .. Len(unpublished) : unpublished[i].by = l /\ unpublished[i].req = req

\* The peers that hold their end of a connection listener l accepted: the
\* remote socket of a stream-socket attempt; the connector whose
\* with_mpsc_connect returned Ok.
PeerHolds(l, req) ==
    /\ l \in 1 .. Len(listeners)
    /\ \/ \E i \in 1 .. Len(published) : published[i].by = l /\ published[i].req = req
       \/ ServerSideDropped(l, req)
    /\ listeners[l].kind = "Mpsc" =>
          req \in 1 .. Len(conns) /\ conns[req].result = OkResult

\* What recv on the peer's end returns, the server side never sending: Closed
\* once the server-side value is dropped (its socket is closed; its sender
\* into the connector's channel is gone), nothing before.
PeerRecvResult(l, req) == IF ServerSideDropped(l, req) THEN "Closed" ELSE "Pending"

\* The peer of a connection calls recv and it returns.
PeerRecv(l, req) ==
    /\ PeerHolds(l, req)
    /\ PeerRecvResult(l, req) # "Pending"
    /\ [by |-> l, req |-> req, res |-> PeerRecvResult(l, req)] \notin observed
    /\ observed' = observed \cup {[by |-> l, req |-> req, res |-> PeerRecvResult(l, req)]}
    /\ UNCHANGED <<sink, unpublished>>
    /\ UNCHANGED <<dataVars, callVars, listenVars, boundVars, connVars, drainVars, lockVars, traceVars>>

\* with_tcp_listen and with_mpsc_listen (for address 1) have both returned:
\* the two accept tasks wait in their select!, the registry holds the
\* in-process listener's rendezvous sender, and the sink has its consumer.
SinkInit ==
    /\ listeners =
          <<[kind |-> "Tcp", addr |-> 0, pc |-> "select", cancel |-> "armed",
             queue |-> <<>>, cur |-> NoCur],
            [kind |-> "Mpsc", addr |-> 1, pc |-> "select", cancel |-> "armed",
             queue |-> <<>>, cur |-> NoCur]>>
    /\ pool = [a \in {1} |-> 2]
    /\ cids = 0
    /\ conns = <<>>
    /\ chans = <<>>
    /\ published = <<>>
    /\ issued = <<>>
    /\ attempts = <<>>
    /\ rejected = {}
    /\ rcvd = {}
    /\ late = {}
    /\ calls = <<>>
    /\ poolLock = NoHolder
    /\ lockQ = <<>>
    /\ sink = "live"
    /\ unpublished = <<>>
    /\ observed = {}
    /\ TraceIdle
    /\ DataIdle /\ BoundIdle /\ ConnIdle /\ DrainIdle

\* Both kinds of listener with a new-connection sink whose consumer may go
\* away, and the peers of the accepted connections.
SinkNext ==
    \/ \E l \in 1 .. MaxListeners : TcpAttempt(l, TRUE)
    \/ MpscConnect(1)
    \/ \E k \in 1 .. MaxConnects : ConnSend(k)
    \/ \E k \in 1 .. MaxConnects : ConnAwait(k)
    \/ \E l \in 1 .. MaxListeners : FireCancel(l)
    \/ \E l \in 1 .. MaxListeners : ListenerExit(l)
    \/ \E l \in 1 .. MaxListeners : TcpAccept(l)
    \/ \E l \in 1 .. MaxListeners : MpscAccept(l)
    \/ \E l \in 1 .. MaxListeners : ListenerPublish(l)
    \/ SinkGone
    \/ \E l \in 1 .. MaxListeners, r \in 1 .. MaxPeers : PeerRecv(l, r)

\* A spawned accept task that can take a step eventually takes one.
FairSinkSpec ==
    SinkInit /\ [][SinkNext]_vars /\ \A l \in 1 .. MaxListeners : WF_vars(ListenerStep(l))

\* The tracer after new() and n calls of log("a"), the last of them now, in
\* a build that checks overflow or in one that does not.
TraceInit ==
    /\ \E n \in TraceStarts :
          /\ tracer = [NewTracer EXCEPT
                 !.items = IF n = CntZero THEN NoItems ELSE [i \in {"a"} |-> n],
                 !.last_cnt = n]
          /\ tLogged = tracer.items
    /\ tNow = 0
    /\ tLogAt = 0
    /\ tChecks \in BOOLEAN
    /\ tPanicked = FALSE
    /\ tCalls = 0
    /\ tRet = NoRet
    /\ ListenIdle /\ DataIdle /\ BoundIdle /\ ConnIdle /\ DrainIdle

TraceNext ==
    \/ \E t \in TraceItems : TracerLog(t)
    \/ TracerPrint
    \/ TracerTick

TraceSpec == TraceInit /\ [][TraceNext]_vars

\* The in-process rendezvous with the registry lock taken step by step.
LockNext ==
    \/ \E op \in {"listen", "connect"}, a \in Addrs : LockRequest(op, a)
    \/ LockGrant
    \/ LockedInsert
    \/ LockedLookup
    \/ \E l \in 1 .. MaxListeners : FireCancel(l)
    \/ \E l \in 1 .. MaxListeners : ListenerExit(l)
    \/ \E l \in 1 .. MaxListeners : MpscListenerClosed(l)
    \/ \E l \in 1 .. MaxListeners : MpscAccept(l)
    \/ \E l \in 1 .. MaxListeners : ListenerPublish(l)
    \/ \E k \in 1 .. MaxConnects : ConnSend(k)
    \/ \E k \in 1 .. MaxConnects : ConnAwait(k)
    \/ \E k \in 1 .. MaxConnects : ConnGiveUp(k)

\* The mutex is fair and a task that holds the guard runs on: nothing is
\* assumed about the accept tasks or about connectors past their lookup.
FairLockSpec ==
    Init /\ [][LockNext]_vars
    /\ WF_vars(LockGrant) /\ WF_vars(LockedInsert) /\ WF_vars(LockedLookup)

\* The in-process rendezvous alone.
RdvNext ==
    \/ \E a \in Addrs : MpscListen(a)
    \/ \E l \in 1 .. MaxListeners : FireCancel(l)
    \/ \E l \in 1 .. MaxListeners : ListenerExit(l)
    \/ \E l \in 1 .. MaxListeners : MpscListenerClosed(l)
    \/ \E l \in 1 .. MaxListeners : MpscAccept(l)
    \/ \E l \in 1 .. MaxListeners : ListenerPublish(l)
    \/ \E a \in Addrs : MpscConnect(a)
    \/ \E k \in 1 .. MaxConnects : ConnSend(k)
    \/ \E k \in 1 .. MaxConnects : ConnAwait(k)
    \/ \E k \in 1 .. MaxConnects : ConnGiveUp(k)

\* The accept tasks and the connect calls are polled: a step of theirs that
\* stays possible is taken. Cancellation and giving up are up to the caller.
FairRdvSpec ==
    Init /\ [][RdvNext]_vars
    /\ \A l \in 1 .. MaxListeners :
          WF_vars(MpscAccept(l)) /\ WF_vars(ListenerPublish(l))
    /\ \A k \in 1 .. MaxConnects :
          WF_vars(ConnSend(k)) /\ WF_vars(ConnAwait(k))

\* The in-process rendezvous with traffic on the connections it sets up.
PairNext ==
    \/ \E a \in Addrs : MpscListen(a)
    \/ \E l \in 1 .. MaxListeners : FireCancel(l)
    \/ \E l \in 1 .. MaxListeners : ListenerExit(l)
    \/ \E l \in 1 .. MaxListeners : MpscListenerClosed(l)
    \/ \E l \in 1 .. MaxListeners : MpscAccept(l)
    \/ \E l \in 1 .. MaxListeners : ListenerPublish(l)
    \/ \E a \in Addrs : MpscConnect(a)
    \/ \E k \in 1 .. MaxConnects : ConnSend(k)
    \/ \E k \in 1 .. MaxConnects : ConnAwait(k)
    \/ \E k \in 1 .. MaxConnects : ConnGiveUp(k)
    \/ \E e \in Endpoints : EpSend(e)
    \/ \E e \in Endpoints : EpRecv(e)

PairSpec == Init /\ [][PairNext]_vars

----------------------------------------------------------------------------
(* One direction of an in-process connection near its capacity: the        *)
(* producer calls MpscDrain::send, the consumer MpscSink::recv. Message i  *)
(* is the i-th message sent. Init is the channel after n sends and no recv.*)

BoundInit ==
    /\ ListenIdle /\ TraceIdle
    /\ DrainIdle
    /\ DataIdle
    /\ ConnIdle
    /\ \E n \in (MPSC_CHANNEL_BOUND - BoundSlack) .. MPSC_CHANNEL_BOUND :
          /\ bq = [i \in 1 .. n |-> i]
          /\ bSent = n
    /\ bRecvd = 0
    /\ bPending = FALSE
    /\ bInOrder = TRUE
    /\ bResumed = FALSE
    /\ bRecvHalf = "live"
    /\ bLast = [res |-> "none", waited |-> FALSE]

\* MpscDrain::send: the message is queued at once when there is room;
\* otherwise the call suspends.
BoundSend ==
    /\ ~bPending
    /\ bRecvHalf = "live"
    /\ bSent < MPSC_CHANNEL_BOUND + MaxBoundSends
    /\ IF MpscHasRoom(bq, 1)
       THEN /\ bq' = MpscDrainSend(bq, bSent + 1)
            /\ bSent' = bSent + 1
            /\ bLast' = [res |-> "Ok", waited |-> FALSE]
            /\ UNCHANGED bPending
       ELSE /\ bPending' = TRUE
            /\ UNCHANGED <<bq, bSent, bLast>>
    /\ UNCHANGED <<bRecvd, bInOrder, bResumed, bRecvHalf>>
    /\ UNCHANGED <<dataVars, callVars, listenVars, connVars, drainVars, lockVars, sinkVars, traceVars>>

\* The suspended send completes once the channel has room.
BoundSendResume ==
    /\ bPending
    /\ bRecvHalf = "live"
    /\ MpscHasRoom(bq, 1)
    /\ bq' = MpscDrainSend(bq, bSent + 1)
    /\ bSent' = bSent + 1
    /\ bPending' = FALSE
    /\ bResumed' = TRUE
    /\ bLast' = [res |-> "Ok", waited |-> TRUE]
    /\ UNCHANGED <<bRecvd, bInOrder, bRecvHalf>>
    /\ UNCHANGED <<dataVars, callVars, listenVars, connVars, drainVars, lockVars, sinkVars, traceVars>>

\* MpscSink::recv returns the message at the front.
BoundRecv ==
    /\ bq # <<>>
    /\ bRecvHalf = "live"
    /\ bRecvd' = bRecvd + 1
    /\ bInOrder' = (bInOrder /\ Head(bq) = bRecvd + 1)
    /\ bq' = Tail(bq)
    /\ UNCHANGED <<bSent, bPending, bResumed, bRecvHalf, bLast>>
    /\ UNCHANGED <<dataVars, callVars, listenVars, connVars, drainVars, lockVars, sinkVars, traceVars>>

\* Mutant: a suspended send goes on waiting for room.
MpscPendingWaits(half) == FALSE

\* MpscDrain::send: sender.send(data).await fails, also while it waits for
\* room, once the channel's receiver is dropped; map_err makes that Closed.
MpscPendingFails(half) == half = "dropped"

\* drop(receive half): the channel's receiver is dropped and with it what was
\* queued.
BoundDropRecv ==
    /\ bRecvHalf = "live"
    /\ bRecvHalf' = "dropped"
    /\ bq' = <<>>
    /\ UNCHANGED <<bSent, bRecvd, bPending, bInOrder, bResumed, bLast>>
    /\ UNCHANGED <<dataVars, callVars, listenVars, connVars, drainVars, lockVars, sinkVars, traceVars>>

\* MpscDrain::send returns Closed: called after the receiver was dropped, or
\* suspended when it was dropped.
BoundSendClosed ==
    /\ MpscPendingFails(bRecvHalf)
    /\ bPending \/ (bLast.res # "Closed" /\ bSent < MPSC_CHANNEL_BOUND + MaxBoundSends)
    /\ bPending' = FALSE
    /\ bLast' = [res |-> "Closed", waited |-> bPending]
    /\ UNCHANGED <<bq, bSent, bRecvd, bInOrder, bResumed, bRecvHalf>>
    /\ UNCHANGED <<dataVars, callVars, listenVars, connVars, drainVars, lockVars, sinkVars, traceVars>>

\* The channel near its capacity with a consumer that may go away.
CloseNext ==
    \/ BoundSend
    \/ BoundSendResume
    \/ BoundRecv
    \/ BoundDropRecv
    \/ BoundSendClosed

\* The producer's task is polled: a send that can complete does.
FairCloseSpec ==
    BoundInit /\ [][CloseNext]_vars
    /\ WF_vars(BoundSendResume) /\ WF_vars(BoundSendClosed)

BoundNext ==
    \/ BoundSend
    \/ BoundSendResume
    \/ BoundRecv

BoundSpec == BoundInit /\ [][BoundNext]_vars

----------------------------------------------------------------------------
(* One connection from construction to its split: both sides hold a        *)
(* Protocols value of the connection's variant, call initialize (one as    *)
(* the initiator, one not) and split. The handshake exchange is modelled   *)
(* from spec.md 4.1 and 6; initialize and split are dispatched on the      *)
(* variant by channel.rs.                                                  *)

Sides == {"initiator", "responder"}

Other(sd) == IF sd = "initiator" THEN "responder" ELSE "initiator"

Pids == {1, 2}
Secrets == {5, 6}
InitialSid == 1

NoInit == [pid |-> 0, sid |-> 0, secret |-> 0]

NoHalves == [send |-> "None", recv |-> "None"]

\* The halves of a value that has not been split, and of one just split.
NoHalfState == [send |-> "None", recv |-> "None"]

LiveHalves == [send |-> "live", recv |-> "live"]

\* Mutant: the receive half comes out as the other variant.
SplitCrossed(p) ==
    [send |-> p.variant, recv |-> IF p.variant = "Tcp" THEN "Mpsc" ELSE "Tcp"]

\* Protocols::split: Tcp((s, r)) gives (SendProtocols::Tcp(s),
\* RecvProtocols::Tcp(r)), Mpsc((s, r)) gives the two Mpsc halves.
Split(p) == [send |-> p.variant, recv |-> p.variant]

\* A frame can be handed to the transport towards side sd without waiting:
\* the socket buffers it (Tcp); the bounded channel has room (Mpsc).
LinkReady(sd) == sides[sd].variant = "Mpsc" => MpscHasRoom(links[sd], 1)

ConnInit ==
    /\ ListenIdle /\ TraceIdle
    /\ DrainIdle
    /\ DataIdle
    /\ BoundIdle
    /\ \E v \in {"Tcp", "Mpsc"}, pid \in [Sides -> Pids], sec \in [Sides -> Secrets] :
          sides = [sd \in Sides |->
                      [variant |-> v, facade |-> "whole", pc |-> "idle",
                       pid |-> pid[sd], secret |-> sec[sd], first |-> FALSE,
                       result |-> NoInit, halves |-> NoHalves, splits |-> 0]]
    /\ links = [sd \in Sides |-> <<>>]
    /\ halfOf = [sd \in Sides |-> NoHalfState]
    /\ halfLog = <<>>

\* initialize(initializer, local_pid, secret) is called on side sd's value.
InitCall(sd) ==
    /\ sides[sd].facade = "whole"
    /\ sides[sd].pc = "idle"
    /\ sides' = [sides EXCEPT ![sd].pc = IF sd = "initiator" THEN "called" ELSE "await",
                              ![sd].first = (sides[Other(sd)].pc = "idle")]
    /\ UNCHANGED <<links, halfOf, halfLog>>
    /\ UNCHANGED <<dataVars, callVars, listenVars, boundVars, drainVars, lockVars, sinkVars, traceVars>>

\* The initiator sends its identity and its proposed secret, then waits for
\* the reply.
InitSend ==
    /\ sides["initiator"].pc = "called"
    /\ LinkReady("responder")
    /\ links' = [links EXCEPT !["responder"] =
                    Append(@, [type |-> "Handshake", pid |-> sides["initiator"].pid,
                               secret |-> sides["initiator"].secret])]
    /\ sides' = [sides EXCEPT !["initiator"].pc = "await"]
    /\ UNCHANGED <<halfOf, halfLog>>
    /\ UNCHANGED <<dataVars, callVars, listenVars, boundVars, drainVars, lockVars, sinkVars, traceVars>>

\* The non-initiator receives the handshake, replies with its identity, the
\* accepted secret and the initial stream id, and returns.
InitReply ==
    /\ sides["responder"].pc = "await"
    /\ links["responder"] # <<>>
    /\ LinkReady("initiator")
    /\ LET h == Head(links["responder"])
       IN /\ links' = [links EXCEPT
                 !["responder"] = Tail(@),
                 !["initiator"] = Append(@, [type |-> "Reply",
                                             pid |-> sides["responder"].pid,
                                             secret |-> h.secret,
                                             sid |-> InitialSid])]
          /\ sides' = [sides EXCEPT
                 !["responder"].pc = "done",
                 !["responder"].result =
                     [pid |-> h.pid, sid |-> InitialSid, secret |-> h.secret]]
    /\ UNCHANGED <<halfOf, halfLog>>
    /\ UNCHANGED <<dataVars, callVars, listenVars, boundVars, drainVars, lockVars, sinkVars, traceVars>>

\* The initiator receives the reply and returns.
InitDone ==
    /\ sides["initiator"].pc = "await"
    /\ links["initiator"] # <<>>
    /\ LET r == Head(links["initiator"])
       IN /\ links' = [links EXCEPT !["initiator"] = Tail(@)]
          /\ sides' = [sides EXCEPT
                 !["initiator"].pc = "done",
                 !["initiator"].result =
                     [pid |-> r.pid, sid |-> r.sid, secret |-> r.secret]]
    /\ UNCHANGED <<halfOf, halfLog>>
    /\ UNCHANGED <<dataVars, callVars, listenVars, boundVars, drainVars, lockVars, sinkVars, traceVars>>

\* split(self) on side sd's value, which no initialize call is borrowing.
SplitSide(sd) ==
    /\ sides[sd].facade = "whole"
    /\ sides[sd].pc \in {"idle", "done"}
    /\ sides' = [sides EXCEPT ![sd].facade = "split",
                              ![sd].halves = Split(sides[sd]),
                              ![sd].splits = @ + 1]
    /\ halfOf' = [halfOf EXCEPT ![sd] = LiveHalves]
    /\ UNCHANGED <<links, halfLog>>
    /\ UNCHANGED <<dataVars, callVars, listenVars, boundVars, drainVars, lockVars, sinkVars, traceVars>>

\* Both values have been split: the handshake frames are consumed and the
\* halves carry the traffic.
BothSplit == \A sd \in Sides : sides[sd].facade = "split"

\* Mutant: the send half works only while the receive half of its own value
\* exists.
SendHalfResultsCoupled(sd) ==
    IF halfOf[sd].recv = "dropped" THEN {"Closed"} ELSE {"Ok"}

\* What a send and flush on side sd's send half can return. Tcp: the write
\* half writes to the socket, which fails at the earliest once the peer has
\* closed it (dropped both halves). Mpsc: the sender fails exactly when the
\* peer's receiver is dropped.
SendHalfResults(sd) ==
    LET peer == halfOf[Other(sd)]
    IN IF sides[sd].variant = "Tcp"
       THEN IF peer.send = "dropped" /\ peer.recv = "dropped"
            THEN {"Ok", "Closed"} ELSE {"Ok"}
       ELSE IF peer.recv = "dropped" THEN {"Closed"} ELSE {"Ok"}

\* What a recv on side sd's receive half returns now, if it returns: the
\* next message in transit; Closed at the end of the stream (the peer's send
\* half is dropped and nothing is in transit).
RecvHalfResults(sd) ==
    IF links[sd] # <<>> THEN {"Ok"}
    ELSE IF halfOf[Other(sd)].send = "dropped" THEN {"Closed"}
    ELSE {}

HalfEntry(op, sd, res) ==
    [op |-> op, side |-> sd, own |-> halfOf[sd], peer |-> halfOf[Other(sd)],
     avail |-> links[sd] # <<>>, res |-> res]

\* drop(half h of side sd).
HalfDrop(sd, h) ==
    /\ BothSplit
    /\ halfOf[sd][h] = "live"
    /\ halfOf' = [halfOf EXCEPT ![sd][h] = "dropped"]
    /\ UNCHANGED <<sides, links, halfLog>>
    /\ UNCHANGED <<dataVars, callVars, listenVars, boundVars, drainVars, lockVars, sinkVars, traceVars>>

\* send and flush of one message on side sd's send half.
HalfSend(sd, res) ==
    /\ BothSplit
    /\ halfOf[sd].send = "live"
    /\ Len(halfLog) < MaxHalfOps
    /\ LinkReady(Other(sd))
    /\ res \in SendHalfResults(sd)
    /\ links' = IF res = "Ok"
                THEN [links EXCEPT ![Other(sd)] =
                         Append(@, [type |-> "Message", from |-> sd,
                                    n |-> Len(halfLog)])]
                ELSE links
    /\ halfLog' = Append(halfLog, HalfEntry("send", sd, res))
    /\ UNCHANGED <<sides, halfOf>>
    /\ UNCHANGED <<dataVars, callVars, listenVars, boundVars, drainVars, lockVars, sinkVars, traceVars>>

\* recv on side sd's receive half.
HalfRecv(sd, res) ==
    /\ BothSplit
    /\ halfOf[sd].recv = "live"
    /\ Len(halfLog) < MaxHalfOps
    /\ res \in RecvHalfResults(sd)
    /\ links' = IF res = "Ok" THEN [links EXCEPT ![sd] = Tail(@)] ELSE links
    /\ halfLog' = Append(halfLog, HalfEntry("recv", sd, res))
    /\ UNCHANGED <<sides, halfOf>>
    /\ UNCHANGED <<dataVars, callVars, listenVars, boundVars, drainVars, lockVars, sinkVars, traceVars>>

ConnNext ==
    \/ \E sd \in Sides : InitCall(sd)
    \/ InitSend
    \/ InitReply
    \/ InitDone
    \/ \E sd \in Sides : SplitSide(sd)

ConnSpec == ConnInit /\ [][ConnNext]_vars

\* An initialize call that can make progress eventually does (its task is
\* polled).
FairConnSpec == ConnSpec /\ WF_vars(InitSend) /\ WF_vars(InitReply) /\ WF_vars(InitDone)

\* One connection of either variant, from construction through its split to
\* the use and the drop of the four halves.
HalfInit ==
    /\ ConnInit
    /\ \A sd \in Sides : sides[sd].pid = 1 /\ sides[sd].secret = 5

HalfNext ==
    \/ \E sd \in Sides : InitCall(sd)
    \/ InitSend
    \/ InitReply
    \/ InitDone
    \/ \E sd \in Sides : SplitSide(sd)
    \/ \E sd \in Sides, h \in {"send", "recv"} : HalfDrop(sd, h)
    \/ \E sd \in Sides, res \in {"Ok", "Closed"} : HalfSend(sd, res)
    \/ \E sd \in Sides, res \in {"Ok", "Closed"} : HalfRecv(sd, res)

HalfSpec == HalfInit /\ [][HalfNext]_vars

----------------------------------------------------------------------------
(* The stream socket under one connection direction, byte by byte: the      *)
(* sender calls TcpDrain::send with whole chunks, the peer TcpSink::recv.   *)
(* wire holds the bytes the socket took and the peer has not read.          *)

\* A chunk one byte longer than the sink's buffer, no two neighbours equal.
LongChunk == [i \in 1 .. TcpBufferSize + 1 |-> 1 + (i % 3)]

DrainChunks == {<<5, 6>>, LongChunk}

\* write_all(&data): everything is written and it returns Ok, or the write
\* fails after the socket took only the first wrote bytes.
WriteAllOutcomes(data) ==
    IF sockErr THEN {[io |-> "Err", wrote |-> 0]}
    ELSE {[io |-> "Ok", wrote |-> Len(data)]}
         \cup {[io |-> "Err", wrote |-> k] : k \in {0, Len(data) - 1}}

\* Mutant: a write that put some bytes on the socket counts as sent.
TcpDrainResultPartial(o) == IF o.wrote > 0 THEN "Ok" ELSE "Closed"

\* TcpDrain::send: Ok(()) => Ok(()), Err(_) => Err(ProtocolError::Closed).
TcpDrainResult(o) == IF o.io = "Ok" THEN "Ok" ELSE "Closed"

\* BytesMut::resize(len, 0): truncate, or extend with zeros.
BufResize(buf, len) ==
    [i \in 1 .. len |-> IF i <= Len(buf) THEN buf[i] ELSE 0]

\* read(&mut buffer) returning Ok(n): the first n bytes in flight are copied
\* to the front of the buffer.
BufRead(buf, w, n) == [i \in 1 .. Len(buf) |-> IF i <= n THEN w[i] ELSE buf[i]]

\* Mutant: split_off(n): the part behind the bytes read is returned.
BufSplitOff(buf, n) ==
    [chunk |-> SubSeq(buf, n + 1, Len(buf)), rest |-> SubSeq(buf, 1, n)]

\* BytesMut::split_to(n): the first n bytes are returned, the buffer keeps
\* what is behind them.
BufSplitTo(buf, n) ==
    [chunk |-> SubSeq(buf, 1, n), rest |-> SubSeq(buf, n + 1, Len(buf))]

\* The read sizes tried: a short read, a full buffer, everything in flight.
ReadChoices(w) == {1, TcpBufferSize, Len(w)} \cap TcpReadSizes(w)

DrainInit ==
    /\ ListenIdle /\ TraceIdle
    /\ BoundIdle
    /\ ConnIdle
    /\ variant = "Tcp"
    /\ sendHalf = "live"
    /\ streams = <<>>
    /\ store = <<>>
    /\ wire = <<>>
    /\ sockErr = FALSE
    /\ recvHalf = "idle"
    /\ recvBuf = <<>>
    /\ sentLog = <<>>
    /\ txLog = <<>>
    /\ recvLog = <<>>
    /\ sendFails = 0
    /\ lastFlush = NoFlush
    /\ scratch = <<>>
    /\ writes = <<>>
    /\ chunks = <<>>

\* TcpDrain::send(data).
DrainSend(data, o) ==
    /\ sendHalf = "live"
    /\ Len(writes) < MaxWrites
    /\ o \in WriteAllOutcomes(data)
    /\ wire' = TcpDrainSend(wire, SubSeq(data, 1, o.wrote))
    /\ sockErr' = (sockErr \/ o.io = "Err")
    /\ writes' = Append(writes,
          [data |-> data, wrote |-> o.wrote, res |-> TcpDrainResult(o)])
    /\ UNCHANGED <<variant, sendHalf, streams, store, recvHalf, recvBuf,
                   sentLog, txLog, recvLog, scratch, chunks>>
    /\ UNCHANGED <<callVars, listenVars, boundVars, connVars, lockVars, sinkVars, traceVars>>

\* The write half is dropped: the socket's write direction is shut down.
DrainDrop ==
    /\ sendHalf = "live"
    /\ sendHalf' = "dropped"
    /\ UNCHANGED <<variant, streams, store, wire, sockErr, recvHalf, recvBuf,
                   sentLog, txLog, recvLog>>
    /\ UNCHANGED <<callVars, listenVars, boundVars, connVars, drainVars, lockVars, sinkVars, traceVars>>

\* TcpSink::recv, read returns Ok(n) with n > 0.
SinkRecv(n) ==
    /\ recvHalf = "idle"
    /\ Len(chunks) < MaxReads
    /\ n \in ReadChoices(wire)
    /\ LET buf == BufRead(BufResize(scratch, TcpBufferSize), wire, n)
           out == BufSplitTo(buf, n)
       IN /\ chunks' = Append(chunks, [res |-> "Ok", chunk |-> out.chunk,
                                       read |-> SubSeq(wire, 1, n)])
          /\ scratch' = out.rest
    /\ wire' = SubSeq(wire, n + 1, Len(wire))
    /\ UNCHANGED <<variant, sendHalf, streams, store, sockErr, recvHalf, recvBuf,
                   sentLog, txLog, recvLog, writes>>
    /\ UNCHANGED <<callVars, listenVars, boundVars, connVars, lockVars, sinkVars, traceVars>>

\* TcpSink::recv, read returns Ok(0) or an error: Closed.
SinkRecvClosed ==
    /\ recvHalf = "idle"
    /\ Len(chunks) < MaxReads
    /\ TcpReadEof \/ sockErr
    /\ chunks' = Append(chunks, [res |-> "Closed", chunk |-> <<>>, read |-> <<>>])
    /\ scratch' = BufResize(scratch, TcpBufferSize)
    /\ UNCHANGED <<variant, sendHalf, streams, store, wire, sockErr, recvHalf,
                   recvBuf, sentLog, txLog, recvLog, writes>>
    /\ UNCHANGED <<callVars, listenVars, boundVars, connVars, lockVars, sinkVars, traceVars>>

DrainNext ==
    \/ \E data \in DrainChunks : \E o \in WriteAllOutcomes(data) : DrainSend(data, o)
    \/ DrainDrop
    \/ \E n \in ReadChoices(wire) : SinkRecv(n)
    \/ SinkRecvClosed

DrainSpec == DrainInit /\ [][DrainNext]_vars

----------------------------------------------------------------------------
(* Properties *)

IsPrefix(a, b) == Len(a) <= Len(b) /\ SubSeq(b, 1, Len(a)) = a

IsOfSid(e, s) == e.type # "Closed" /\ e.sid = s

RECURSIVE SelectSid(_, _)
SelectSid(log, s) ==
    IF log = <<>> THEN <<>>
    ELSE IF IsOfSid(Head(log), s) THEN <<Head(log)>> \o SelectSid(Tail(log), s)
    ELSE SelectSid(Tail(log), s)

Count(log, e) == Cardinality({i \in 1 .. Len(log) : log[i] = e})

\* The scenario of C1: an open-stream event, one message, all of it flushed,
\* the send half dropped, on a stream socket that has not failed.
C1_Scenario ==
    /\ variant = "Tcp"
    /\ ~sockErr
    /\ sendHalf = "dropped"
    /\ Len(sentLog) = 2
    /\ sentLog[1].type = "OpenStream"
    /\ sentLog[2].type = "Message"
    /\ txLog = sentLog

\* C1: on a stream socket, after the send half sent an open-stream event and
\* one message, flushed them and was dropped, every recv() that returns Closed
\* comes after the recv() calls that returned the open-stream event and then
\* the message.
C1_HalfCloseDrain ==
    C1_Scenario =>
        \A i \in 1 .. Len(recvLog) :
            recvLog[i] = Closed =>
                /\ i >= 3
                /\ recvLog[1] = sentLog[1]
                /\ recvLog[2] = sentLog[2]

\* The scenario of tests::tokio_sinks has run to the first Closed.
C1_Witness ==
    /\ C1_Scenario
    /\ sentLog[1] = [type |-> "OpenStream", sid |-> 1, prio |-> 4, promises |-> 4]
    /\ sentLog[2] = [type |-> "Message", sid |-> 1, data |-> <<7, 8>>]
    /\ recvLog = <<sentLog[1], sentLog[2], Closed>>

\* C2: on both transports, the events recv returns for one stream id are, in
\* order, a prefix of the events sent with that stream id.
C2_PerStreamOrder ==
    \A s \in Sids : IsPrefix(SelectSid(recvLog, s), SelectSid(sentLog, s))

\* Three events of one stream have arrived in order over the in-process
\* transport, the two messages differing.
C2_Witness ==
    /\ variant = "Mpsc"
    /\ Len(SelectSid(recvLog, 1)) = 3
    /\ recvLog[2] # recvLog[3]

\* C3: every event recv returns equals an event that was sent (same stream
\* id, priority and promises, or same stream id and payload), and is returned
\* no more often than it was sent.
C3_OnlySentEvents ==
    \A i \in 1 .. Len(recvLog) :
        recvLog[i] # Closed => Count(recvLog, recvLog[i]) <= Count(sentLog, recvLog[i])

\* The stream socket delivered the open-stream event and a two-byte payload.
C3_Witness ==
    /\ variant = "Tcp"
    /\ Len(recvLog) = 2
    /\ recvLog[1] = [type |-> "OpenStream", sid |-> 1, prio |-> 4, promises |-> 4]
    /\ recvLog[2] = [type |-> "Message", sid |-> 1, data |-> <<7, 8>>]

\* A recv() is waiting on a stream socket whose peer send half was dropped
\* with nothing in flight.
C4_Waiting ==
    /\ variant = "Tcp"
    /\ recvHalf = "waiting"
    /\ sendHalf = "dropped"
    /\ wire = <<>>
    /\ ~DecodeFrame(recvBuf).ok

C4_ReturnedClosed ==
    /\ recvHalf = "idle"
    /\ recvLog # <<>>
    /\ recvLog[Len(recvLog)] = Closed

\* C4: a recv() waiting on a stream-socket receive half whose peer send half
\* is dropped with nothing in flight eventually returns, and returns Closed.
C4_RecvEndsAfterDrop == C4_Waiting ~> C4_ReturnedClosed

\* The scenario of tests::tokio_sink_stop_after_drop: nothing was sent, the
\* send half was dropped, the recv() returned Closed.
C4_Witness ==
    /\ variant = "Tcp"
    /\ ~sockErr
    /\ sentLog = <<>>
    /\ sendHalf = "dropped"
    /\ recvHalf = "idle"
    /\ recvLog = <<Closed>>

\* C5: the ids the shared counter issues are strictly increasing in the order
\* issued, whichever listener takes them, so no id is issued twice; every
\* published connection carries an issued id that no other published
\* connection carries.
C5_CidsUniqueIncreasing ==
    /\ \A i, j \in 1 .. Len(issued) : i < j => issued[i] < issued[j]
    /\ \A i \in 1 .. Len(published) :
          /\ \E j \in 1 .. Len(issued) : issued[j] = published[i].cid
          /\ \A j \in 1 .. Len(published) :
                i # j => published[i].cid # published[j].cid

\* A stream-socket listener and an in-process listener have both published a
\* connection with an id from the shared counter.
C5_Witness ==
    \E i, j \in 1 .. Len(published) :
        /\ published[i].proto.variant = "Tcp"
        /\ published[j].proto.variant = "Mpsc"
        /\ published[i].by # published[j].by

\* Attempt a is a valid attempt queued at its stream-socket listener behind
\* a failing one, and that listener has not been cancelled.
C6_QueuedBehindFailure(a) ==
    /\ a \in 1 .. Len(attempts)
    /\ listeners[attempts[a]].cancel = "armed"
    /\ \E i \in 1 .. Len(listeners[attempts[a]].queue) :
          /\ listeners[attempts[a]].queue[i].id = a
          /\ listeners[attempts[a]].queue[i].ok
          /\ \E j \in 1 .. i - 1 : ~listeners[attempts[a]].queue[j].ok

\* Attempt a was published by the listener it went to.
C6_Published(a) ==
    /\ a \in 1 .. Len(attempts)
    /\ \E i \in 1 .. Len(published) :
          /\ published[i].proto.variant = "Tcp"
          /\ published[i].req = a
          /\ published[i].by = attempts[a]
          /\ published[i].cid \in {issued[j] : j \in 1 .. Len(issued)}

C6_Cancelled(a) ==
    a \in 1 .. Len(attempts) /\ listeners[attempts[a]].cancel = "fired"

\* C6: a valid attempt queued at a stream-socket listener behind failing
\* accepts is eventually accepted, given an id and published, unless the
\* listener is cancelled first.
C6_AcceptAfterFailure ==
    \A a \in 1 .. MaxAttempts :
        C6_QueuedBehindFailure(a) ~> (C6_Published(a) \/ C6_Cancelled(a))

\* A listener's accept failed for attempt 1 and it then published attempt 2.
C6_Witness ==
    /\ Len(attempts) = 2
    /\ <<1, attempts[2]>> \in rejected
    /\ C6_Published(2)
    /\ listeners[attempts[2]].cancel = "armed"

\* Endpoint b is the other end of endpoint a's connection: one is what
\* connect call k returned, the other what was published for request k.
IsPeer(a, b) ==
    /\ a[1] # b[1]
    /\ LET c == IF a[1] = "c" THEN a ELSE b
           p == IF a[1] = "c" THEN b ELSE a
       IN published[p[2]].req = c[2]

\* C7: after a successful with_mpsc_connect the connector's value and the
\* value published for that request are wired to each other (each one's send
\* half feeds the other's receive half over its own channel), a message sent
\* on either is received only by the other, and no two values share a channel
\* end.
C7_BidirectionalPair ==
    /\ \A r \in rcvd : IsPeer(r.msg, r.by)
    /\ \A e, f \in Endpoints :
          /\ IsPeer(e, f) =>
                /\ ProtoOf(e).tx = ProtoOf(f).rx
                /\ ProtoOf(e).rx = ProtoOf(f).tx
                /\ ProtoOf(e).tx # ProtoOf(e).rx
          /\ e # f =>
                /\ ProtoOf(e).tx # ProtoOf(f).tx
                /\ ProtoOf(e).rx # ProtoOf(f).rx

\* With two connections established, one of them has carried a message in
\* each direction.
C7_Witness ==
    /\ Cardinality(Endpoints) = 4
    /\ \E e, f \in Endpoints :
          /\ e[1] = "c"
          /\ IsPeer(e, f)
          /\ [by |-> f, msg |-> e] \in rcvd
          /\ [by |-> e, msg |-> f] \in rcvd

\* The connect error the claim names for a missing registry entry.
NotListeningError == [err |-> "NotListening", kind |-> "NotListening"]

\* Request k is queued at, or being served by, some listener.
RequestSent(k) ==
    \E l \in 1 .. Len(listeners) :
        /\ listeners[l].kind = "Mpsc"
        /\ \/ \E i \in 1 .. Len(listeners[l].queue) : listeners[l].queue[i] = k
           \/ listeners[l].cur.req = k

\* C8 as claimed: a with_mpsc_connect that finds no registry entry fails with
\* NotListening, which is not the Io error, and sends no rendezvous request.
C8_NotListening ==
    \A k \in 1 .. Len(conns) :
        (conns[k].pc = "done" /\ conns[k].target = 0) =>
            /\ conns[k].result = NotListeningError
            /\ conns[k].result.err # "Io"
            /\ ~RequestSent(k)

\* C9: the in-process channel never holds more than MPSC_CHANNEL_BOUND
\* messages; a send finding it full stays suspended; the channel holds exactly
\* the messages sent and not yet received, in the order sent, and recv has
\* returned the messages in the order sent.
C9_BoundedLossless ==
    /\ Len(bq) <= MPSC_CHANNEL_BOUND
    /\ Len(bq) = bSent - bRecvd
    /\ \A i \in 1 .. Len(bq) : bq[i] = bRecvd + i
    /\ bInOrder

\* A send found the channel full, was suspended, and completed after a recv:
\* the channel is full again and holds the message at its back.
C9_Witness ==
    /\ bResumed
    /\ Len(bq) = MPSC_CHANNEL_BOUND
    /\ bRecvd = 1
    /\ bSent = MPSC_CHANNEL_BOUND + 1
    /\ ~bPending
    /\ bq[MPSC_CHANNEL_BOUND] = MPSC_CHANNEL_BOUND + 1

\* C10 as claimed: a listener whose signal has fired and that is at its
\* select! does not accept another attempt.
C10_NoAcceptAfterCancel ==
    [][\A l \in 1 .. Len(listeners) :
          (listeners[l].cancel = "fired" /\ listeners[l].pc = "select")
              => listeners'[l].pc # "publish"]_vars

\* A step in which some listener's signal fires or some accept task exits.
C11_CancelStep ==
    \E l \in 1 .. Len(listeners) :
        \/ listeners[l].cancel = "armed" /\ listeners'[l].cancel = "fired"
        \/ listeners[l].pc # "exited" /\ listeners'[l].pc = "exited"

\* The connections set up so far: what connect calls returned, what was
\* published (Protocols value and connection id), and the channels' content.
C11_Accepted ==
    <<[k \in 1 .. Len(conns) |-> <<conns[k].result, conns[k].proto>>],
      published, chans>>

\* C11: a step in which a listener's cancellation signal fires, or its accept
\* task exits, leaves the connections already accepted as they were: the
\* published (Protocols, Cid) pairs, the connectors' Protocols values and the
\* content of their channels; and on a connection whose accept task has
\* exited a recv with a message queued can still return it.
C11_CancelLeavesConns ==
    /\ [][C11_CancelStep => C11_Accepted' = C11_Accepted]_vars
    /\ [](\A e \in Endpoints :
             (listeners[ListenerOf(e)].pc = "exited" /\ chans[ProtoOf(e).rx] # <<>>)
                 => ENABLED EpRecv(e))

\* After the accept task exited on its signal, one end of a connection it
\* had accepted sent a message and the other end received it.
C11_Witness ==
    \E e, f \in Endpoints :
        /\ IsPeer(e, f)
        /\ listeners[ListenerOf(e)].cancel = "fired"
        /\ listeners[ListenerOf(e)].pc = "exited"
        /\ <<"send", e>> \in late
        /\ <<"recv", f>> \in late
        /\ [by |-> f, msg |-> e] \in rcvd

\* C12 as claimed (its safety half): an accept task exits only after its
\* listener's cancellation signal has fired.
C12_RunsUntilCancel ==
    \A l \in 1 .. Len(listeners) :
        listeners[l].pc = "exited" => listeners[l].cancel = "fired"

\* C13: once a send or flush has returned Closed the send half is dead and
\* stays dead: its drain keeps failing (the socket stays failed, the channel's
\* receiver stays gone), every later send returns Closed too, nothing more
\* reaches the transport and the half never becomes live again.
C13_DeadStaysDead ==
    /\ [](sendFails > 0 => sendHalf \in {"dead", "dropped"})
    /\ [](sendHalf = "dead" => DrainFails)
    /\ [][sendHalf = "dead" =>
             /\ sendHalf' # "live"
             /\ txLog' = txLog
             /\ sentLog' # sentLog => sendFails' = CountFail(sendFails)]_vars

\* On the in-process transport the peer's receive half is gone; a send
\* failed with Closed and a later call failed with Closed again, with a
\* message still waiting in the store.
C13_Witness ==
    /\ variant = "Mpsc"
    /\ recvHalf = "dropped"
    /\ sendHalf = "dead"
    /\ sendFails = 2
    /\ store # <<>>

\* The position of the first Closed in the results of recv (0: none).
C14_FirstClosed ==
    IF \E i \in 1 .. Len(recvLog) : recvLog[i] = Closed
    THEN CHOOSE i \in 1 .. Len(recvLog) :
             recvLog[i] = Closed /\ \A j \in 1 .. i - 1 : recvLog[j] # Closed
    ELSE 0

\* C14: on the in-process transport, while messages are queued a recv made
\* after the peer's send half was dropped returns the oldest of them, not
\* Closed; the first Closed comes only after the drop and after every message
\* put into the channel was returned, in the order sent; and every result
\* after the first Closed is Closed.
C14_MpscDrainThenClosed ==
    /\ [][(variant = "Mpsc" /\ sendHalf = "dropped" /\ wire # <<>>
              /\ recvLog' # recvLog)
            => recvLog' = Append(recvLog, Head(wire))]_vars
    /\ []((variant = "Mpsc" /\ C14_FirstClosed > 0) =>
             /\ sendHalf = "dropped"
             /\ SubSeq(recvLog, 1, C14_FirstClosed - 1) = txLog
             /\ \A j \in C14_FirstClosed .. Len(recvLog) : recvLog[j] = Closed)

\* The in-process channel delivered an event of the dropped peer and then
\* reported Closed twice.
C14_Witness ==
    /\ variant = "Mpsc"
    /\ sendHalf = "dropped"
    /\ Len(recvLog) = 3
    /\ recvLog[1] \in OpenEvents
    /\ recvLog[2] = Closed
    /\ recvLog[3] = Closed

C15_BothCalled == \A sd \in Sides : sides[sd].pc # "idle"

C15_BothReturned ==
    \A sd \in Sides : sides[sd].pc = "done" /\ sides[sd].result # NoInit

\* C15: on a live connection, once the initiator's and the non-initiator's
\* initialize calls have both begun, in either order, both calls eventually
\* return.
C15_HandshakeNoDeadlock == C15_BothCalled ~> C15_BothReturned

\* The non-initiator called initialize first, the initiator afterwards, and
\* both calls have returned, each with the other's identity.
C15_Witness ==
    /\ sides # <<>>
    /\ C15_BothReturned
    /\ sides["responder"].first
    /\ ~sides["initiator"].first
    /\ sides["initiator"].result.pid = sides["responder"].pid
    /\ sides["responder"].result.pid = sides["initiator"].pid

\* C16: the bandwidth a successful flush reports as consumed is not greater
\* than the budget it was given.
C16_ConsumedWithinBudget == lastFlush.used <= lastFlush.budget

\* A flush whose budget could not cover the pending data used its budget up
\* and left a message in the store.
C16_Witness ==
    /\ lastFlush.budget = MaxBudget
    /\ lastFlush.used = MaxBudget
    /\ store # <<>>
    /\ Len(txLog) = 2

\* C17: a message reaches the transport only in a step of flush; as long as
\* no flush has transmitted anything, whatever was sent, only open-stream
\* events were handed to the transport and the peer's recv has returned no
\* message.
C17_PayloadOnlyOnFlush ==
    /\ [][(\E i \in Len(txLog) + 1 .. Len(txLog') : txLog'[i].type = "Message")
             => \E b \in Budgets : Flush(b)]_vars
    /\ [](lastFlush = NoFlush =>
             /\ \A i \in 1 .. Len(txLog) : txLog[i].type = "OpenStream"
             /\ \A i \in 1 .. Len(recvLog) : recvLog[i].type # "Message")

\* An open-stream event and two messages were sent and nothing was flushed:
\* the peer has received the open-stream event and waits in recv, the two
\* messages are in the store.
C17_Witness ==
    /\ lastFlush = NoFlush
    /\ Len(sentLog) = 3
    /\ Len(store) = 2
    /\ Len(recvLog) = 1
    /\ recvLog[1] = sentLog[1]
    /\ recvHalf = "waiting"
    /\ wire = <<>>

\* C18: what a flush transmits goes out most urgent first (lower number, as
\* recorded when the stream was opened), and a flush leaves no message in the
\* store that is more urgent than one it transmitted.
C18_UrgentFirst ==
    [][\A i \in Len(txLog) + 1 .. Len(txLog') :
          /\ \A j \in 1 .. Len(store') :
                streams[txLog'[i].sid] <= streams[store'[j].sid]
          /\ \A j \in i + 1 .. Len(txLog') :
                streams[txLog'[i].sid] <= streams[txLog'[j].sid]]_vars

\* A message of the less urgent stream was sent first, one of the more urgent
\* stream second; a flush that could not cover both transmitted the second
\* and left the first in the store.
C18_Witness ==
    /\ Len(sentLog) = 2
    /\ streams[sentLog[1].sid] > streams[sentLog[2].sid]
    /\ txLog = <<sentLog[2]>>
    /\ store = <<sentLog[1]>>
    /\ lastFlush.used < Len(sentLog[1].data) + Len(sentLog[2].data)

\* C19 as claimed: for a request whose reply could not be delivered because
\* the connector gave up, the in-process listener takes no connection id and
\* publishes no (Protocols, Cid) pair.
C19_FailedReplySkipped ==
    \A l \in 1 .. Len(listeners), k \in 1 .. Len(conns) :
        (listeners[l].kind = "Mpsc" /\ <<k, l>> \in rejected) =>
            /\ listeners[l].cur.req # k
            /\ \A i \in 1 .. Len(published) :
                  ~(published[i].by = l /\ published[i].req = k)

\* C20: a Protocols value that was split was consumed by exactly one split,
\* which returned a send half and a receive half of the value's own variant;
\* no step changes the variant of a connection's value; and only a value
\* that has not been split is split or used by initialize.
C20_SplitKeepsVariant ==
    /\ [](\A sd \in DOMAIN sides :
             /\ sides[sd].splits <= 1
             /\ sides[sd].facade = "split" <=> sides[sd].splits = 1
             /\ sides[sd].facade = "split" =>
                   /\ sides[sd].halves.send = sides[sd].variant
                   /\ sides[sd].halves.recv = sides[sd].variant
             /\ sides[sd].facade = "whole" => sides[sd].halves = NoHalves)
    /\ [][\A sd \in DOMAIN sides :
             /\ sides'[sd].variant = sides[sd].variant
             /\ sides[sd].facade = "split" => sides'[sd] = sides[sd]]_vars

\* Both sides completed the handshake on a stream-socket connection and then
\* split their values.
C20_Witness ==
    /\ sides # <<>>
    /\ \A sd \in Sides :
          /\ sides[sd].variant = "Tcp"
          /\ sides[sd].pc = "done"
          /\ sides[sd].facade = "split"
          /\ sides[sd].halves = [send |-> "Tcp", recv |-> "Tcp"]

\* C21: no step takes an address out of the registry: every address with an
\* entry still has one after the step, whatever the step is, and every
\* in-process listener's address has an entry, also after its accept task
\* has exited.
C21_EntryNeverRemoved ==
    /\ [][DOMAIN pool \subseteq DOMAIN pool']_vars
    /\ [](\A l \in 1 .. Len(listeners) :
             listeners[l].kind = "Mpsc" => listeners[l].addr \in DOMAIN pool)

\* An in-process listener was cancelled and its accept task has exited; its
\* address is still in the registry and still leads to it.
C21_Witness ==
    \E l \in 1 .. Len(listeners) :
        /\ listeners[l].kind = "Mpsc"
        /\ listeners[l].cancel = "fired"
        /\ listeners[l].pc = "exited"
        /\ listeners[l].addr \in DOMAIN pool
        /\ pool[listeners[l].addr] = l

\* A step in which a with_tcp_listen call fails.
C22_BindFails ==
    /\ Len(calls') = Len(calls) + 1
    /\ calls'[Len(calls')].op = "tcp_listen"

\* C22: a with_tcp_listen whose bind fails returns the I/O error and changes
\* nothing else: the accept tasks (none is added, the running ones keep
\* their state), the connection-id counter, what was published and the
\* registry are as before.
C22_BindFailureNoEffect ==
    [][C22_BindFails =>
          /\ calls'[Len(calls')].result = IoError
          /\ UNCHANGED <<listeners, cids, issued, published, pool, attempts>>]_vars

\* A bind failed while one listener was running with nothing published yet;
\* that listener, still the only one, has since accepted and published a
\* connection.
C22_Witness ==
    /\ Len(listeners) = 1
    /\ Len(published) = 1
    /\ \E i \in 1 .. Len(calls) :
          /\ calls[i].op = "tcp_listen"
          /\ calls[i].out = "bind"
          /\ calls[i].seen = 0

\* C23: a with_tcp_connect whose socket could not be opened, or whose
\* no-delay could not be set, returned the Io error and no Protocols value;
\* one that returned a Protocols value returned a stream-socket one, and
\* both steps had succeeded.
C23_TcpConnectIoOrTcp ==
    \A i \in 1 .. Len(calls) :
        calls[i].op = "tcp_connect" =>
            /\ calls[i].out \in {"connect", "nodelay"} =>
                  /\ calls[i].result.err = "Io"
                  /\ calls[i].proto = NoCur.proto
            /\ calls[i].proto # NoCur.proto =>
                  /\ calls[i].proto.variant = "Tcp"
                  /\ calls[i].result.err = "Ok"
                  /\ calls[i].out \notin {"connect", "nodelay"}

\* One with_tcp_connect failed at setting no-delay and returned the Io error;
\* another succeeded and returned a stream-socket value.
C23_Witness ==
    /\ Len(calls) = 2
    /\ calls[1].op = "tcp_connect" /\ calls[1].out = "nodelay"
    /\ calls[1].result = IoError
    /\ calls[2].op = "tcp_connect" /\ calls[2].out = "ok"
    /\ calls[2].proto = NewTcp

\* The bytes the socket took from the TcpDrain::send calls so far.
Accepted ==
    LET RECURSIVE Cat(_)
        Cat(i) == IF i = 0 THEN <<>>
                  ELSE Cat(i - 1) \o SubSeq(writes[i].data, 1, writes[i].wrote)
    IN Cat(Len(writes))

\* The chunks the successful TcpSink::recv calls returned, concatenated.
Returned ==
    LET RECURSIVE Cat(_)
        Cat(i) == IF i = 0 THEN <<>> ELSE Cat(i - 1) \o chunks[i].chunk
    IN Cat(Len(chunks))

\* C24: every TcpDrain::send returned Ok or Closed; it returned Ok exactly
\* when the socket took the whole chunk, and Closed whenever the write failed,
\* also when part of the chunk had been written before the failure.
C24_AllOrClosed ==
    \A i \in 1 .. Len(writes) :
        /\ writes[i].res \in {"Ok", "Closed"}
        /\ writes[i].res = "Ok" <=> writes[i].wrote = Len(writes[i].data)
        /\ writes[i].wrote < Len(writes[i].data) => writes[i].res = "Closed"

\* A send of the long chunk failed after all but its last byte was written
\* and returned Closed, after an earlier send had returned Ok.
C24_Witness ==
    /\ Len(writes) = 2
    /\ writes[1].res = "Ok"
    /\ writes[2].data = LongChunk
    /\ writes[2].wrote = TcpBufferSize
    /\ writes[2].res = "Closed"

\* C25: every successful TcpSink::recv returned a chunk of 1 to 1500 bytes
\* that is exactly what its read took from the socket; the chunks returned so
\* far, followed by the bytes still unread, are the bytes the socket took
\* from the peer, in order; and recv returned Closed only for a read of zero
\* bytes (end of stream) or a failed read.
C25_ChunksAreTheBytes ==
    /\ \A i \in 1 .. Len(chunks) :
          chunks[i].res = "Ok" =>
              /\ Len(chunks[i].chunk) >= 1
              /\ Len(chunks[i].chunk) <= 1500
              /\ chunks[i].chunk = chunks[i].read
    /\ Returned \o wire = Accepted
    /\ \A i \in 1 .. Len(chunks) :
          chunks[i].res = "Closed" =>
              \/ sockErr
              \/ sendHalf = "dropped" /\ Returned = Accepted

\* The peer wrote the long chunk and a short one and dropped its half; the
\* first recv returned a full buffer of 1500 bytes, the second the rest,
\* the third Closed.
C25_Witness ==
    /\ Len(writes) = 2
    /\ writes[1].data = LongChunk
    /\ ~sockErr
    /\ Len(chunks) = 3
    /\ Len(chunks[1].chunk) = TcpBufferSize
    /\ chunks[2].res = "Ok"
    /\ chunks[3].res = "Closed"
    /\ Returned = Accepted

\* C26: the halves split returned do not depend on each other: a send and
\* flush on a send half returned Ok whenever the peer's receive half existed,
\* also after the receive half of the sender's own value had been dropped;
\* a recv on a receive half returned the message in transit whenever there
\* was one, also after the send half of the receiver's own value had been
\* dropped.
C26_HalvesIndependent ==
    \A i \in 1 .. Len(halfLog) :
        LET e == halfLog[i]
        IN /\ e.op = "send" /\ e.peer.recv = "live" => e.res = "Ok"
           /\ e.op = "recv" /\ e.avail => e.res = "Ok"

\* As in tokio_sinks: one side dropped its receive half, the other its send
\* half; then the first sent and the second received, both with success.
C26_Witness ==
    \E i, j \in 1 .. Len(halfLog) :
        /\ i < j
        /\ halfLog[i].op = "send"
        /\ halfLog[i].own.recv = "dropped"
        /\ halfLog[i].res = "Ok"
        /\ halfLog[j].op = "recv"
        /\ halfLog[j].side = Other(halfLog[i].side)
        /\ halfLog[j].own.send = "dropped"
        /\ halfLog[j].res = "Ok"

\* The step of the call that holds the registry lock.
C27_HolderStep == LockedInsert \/ LockedLookup

\* C27: the registry lock is held only by a call that is at its one insert
\* or lookup, and that step is never blocked: no connector holds the lock
\* while it sends its request or waits for the reply. Whenever a call waits
\* for the lock, the lock can be granted or its holder can finish, whatever
\* the connectors and accept tasks are doing; so every waiting call gets the
\* lock, even if a connector waits for its reply forever.
C27_LockOnlyForOneStep ==
    /\ [](poolLock.op \in {"none", "listen", "connect"})
    /\ [](poolLock # NoHolder => ENABLED C27_HolderStep)
    /\ [](lockQ # <<>> => ENABLED LockGrant \/ ENABLED C27_HolderStep)
    /\ (lockQ # <<>> ~> lockQ = <<>>)

\* A connector waits for the reply of an accept task that has not answered,
\* while a listen call holds the lock and another connect call waits for it.
C27_Witness ==
    /\ \E k \in 1 .. Len(conns) : conns[k].pc = "await" /\ conns[k].reply = 0
    /\ poolLock.op = "listen"
    /\ \E i \in 1 .. Len(lockQ) : lockQ[i].op = "connect"

\* The in-process listeners spawned for address a.
ListenersAt(a) ==
    {l \in 1 .. Len(listeners) : listeners[l].kind = "Mpsc" /\ listeners[l].addr = a}

\* The step is the lookup of a with_mpsc_connect call.
IsLookup == Len(conns') = Len(conns) + 1

\* The accept task l has taken request k from its rendezvous channel.
TakenBy(k, l) ==
    \/ listeners[l].cur.req = k
    \/ \E i \in 1 .. Len(published) : published[i].req = k /\ published[i].by = l

\* The request of call k is in the rendezvous channel of accept task l.
InQueue(k, l) == \E i \in 1 .. Len(listeners[l].queue) : listeners[l].queue[i] = k

\* Call k has looked its address up and is about to send its request, or has
\* sent it and waits for the reply.
C28_Connecting(k) ==
    /\ k \in 1 .. Len(conns)
    /\ conns[k].pc \in {"send", "await"}
    /\ conns[k].reply = 0

\* The accept task the request of call k went to took it from the channel
\* and replied, or the listener was cancelled.
C28_AcceptedOrCancelled(k) ==
    /\ k \in 1 .. Len(conns)
    /\ conns[k].target # 0
    /\ \/ TakenBy(k, conns[k].target)
       \/ listeners[conns[k].target].cancel = "fired"

\* C28: an accept task exists only for an address that is in the registry
\* (with_mpsc_listen inserts before it spawns and returns); a lookup for an
\* address for which with_mpsc_listen has returned does not fail for a
\* missing entry and goes on to send its request; and the request of every
\* such call is taken and answered by the accept task, however late that task
\* is polled, unless the listener is cancelled first.
C28_ConnectAfterListen ==
    /\ [](\A l \in 1 .. Len(listeners) :
             listeners[l].kind = "Mpsc" => listeners[l].addr \in DOMAIN pool)
    /\ [][IsLookup /\ ListenersAt(conns'[Len(conns')].addr) # {} =>
             /\ conns'[Len(conns')].result # NoEntryError
             /\ conns'[Len(conns')].pc = "send"]_vars
    /\ \A k \in 1 .. MaxConnects : C28_Connecting(k) ~> C28_AcceptedOrCancelled(k)

\* A connect call returned Ok from a listener that was never cancelled: its
\* request waited in the channel until the accept task took it.
C28_Witness ==
    \E k \in 1 .. Len(conns) :
        /\ conns[k].result = OkResult
        /\ listeners[conns[k].target].cancel = "armed"
        /\ \E i \in 1 .. Len(published) : published[i].req = k

\* Call k has not got a reply and the accept task of its listener has exited.
C29_ListenerGone(k) ==
    /\ k \in 1 .. Len(conns)
    /\ conns[k].pc \in {"send", "await"}
    /\ conns[k].reply = 0
    /\ listeners[conns[k].target].pc = "exited"

\* Call k is over without a connection: it returned the broken-pipe Io error,
\* or its caller dropped it.
C29_Ended(k) ==
    /\ k \in 1 .. Len(conns)
    /\ conns[k].pc = "done"
    /\ conns[k].result \in {BrokenPipeError, GaveUp}

\* C29: a with_mpsc_connect call whose listener's accept task has exited
\* without replying does not wait forever: whether it has sent its request
\* or not, it ends, and it never returns a connection; a call returns the
\* broken-pipe Io error only for a listener whose accept task has exited,
\* and the registry still has the entry for the address then.
C29_NoHangOnStoppedListener ==
    /\ \A k \in 1 .. MaxConnects : C29_ListenerGone(k) ~> C29_Ended(k)
    /\ [][\A k \in 1 .. Len(conns) :
             C29_ListenerGone(k) =>
                 conns'[k].result \in {NoResult, BrokenPipeError, GaveUp}]_vars
    /\ [](\A k \in 1 .. Len(conns) :
             conns[k].result = BrokenPipeError =>
                 /\ listeners[conns[k].target].pc = "exited"
                 /\ conns[k].addr \in DOMAIN pool)

\* Two calls returned the broken-pipe error for an address still in the
\* registry: one had sent its request before the accept task exited, the
\* other found the rendezvous channel closed when it sent.
C29_Witness ==
    \E j, k \in 1 .. Len(conns) :
        /\ conns[j].result = BrokenPipeError
        /\ conns[j].rx # 0
        /\ conns[k].result = BrokenPipeError
        /\ conns[k].rx = 0
        /\ conns[k].addr \in DOMAIN pool

\* C30: a lookup that finds an entry gets the newest accept task spawned for
\* the address; a request is only ever in the channel of, or taken by, the
\* accept task its call's lookup returned, and it is there at most once; so
\* an older listener gets only requests whose lookup came before it was
\* replaced.
C30_NewestListenerOnly ==
    /\ [][IsLookup /\ conns'[Len(conns')].target # 0 =>
             LET c == conns'[Len(conns')]
             IN /\ c.target \in ListenersAt(c.addr)
                /\ \A l \in ListenersAt(c.addr) : l <= c.target]_vars
    /\ [](\A k \in 1 .. Len(conns), l \in 1 .. Len(listeners) :
             /\ InQueue(k, l) \/ TakenBy(k, l) => conns[k].target = l
             /\ ~(InQueue(k, l) /\ TakenBy(k, l))
             /\ Cardinality({i \in 1 .. Len(listeners[l].queue) :
                                listeners[l].queue[i] = k}) <= 1
             /\ Cardinality({i \in 1 .. Len(published) :
                                published[i].req = k}) <= 1)

\* Two listeners were started for one address; the call that looked the
\* address up before the second listen was accepted by the first listener,
\* the call that looked it up afterwards by the second.
C30_Witness ==
    /\ Len(listeners) = 2
    /\ listeners[1].addr = listeners[2].addr
    /\ Len(conns) = 2
    /\ conns[1].target = 1
    /\ conns[2].target = 2
    /\ \E i, j \in 1 .. Len(published) :
          /\ published[i].req = 1 /\ published[i].by = 1
          /\ published[j].req = 2 /\ published[j].by = 2

\* C31: a listener whose cancellation sender was dropped unused stops as one
\* whose signal was fired: while the accept task waits in its select! the
\* cancellation branch can be taken, for either kind of listener; the task
\* exits once that branch is taken, which under fairness of the task happens
\* at the latest when no attempt is pending; and no step brings the signal
\* back.
C31_DroppedSignalStops ==
    /\ [](\A l \in 1 .. Len(listeners) :
             listeners[l].cancel \in {"fired", "dropped"} /\ listeners[l].pc = "select"
                 => ENABLED ListenerExit(l))
    /\ [][\A l \in 1 .. Len(listeners) :
             listeners[l].cancel = "dropped" => listeners'[l].cancel = "dropped"]_vars
    /\ \A l \in 1 .. MaxListeners :
          (l \in 1 .. Len(listeners) /\ listeners[l].cancel \in {"fired", "dropped"})
              ~> (l \in 1 .. Len(listeners) /\ listeners[l].pc = "exited")

\* A stream-socket listener and an in-process listener have both exited after
\* their cancellation senders were dropped, never fired.
C31_Witness ==
    /\ Len(listeners) = 2
    /\ listeners[1].kind # listeners[2].kind
    /\ \A l \in 1 .. 2 :
          listeners[l].cancel = "dropped" /\ listeners[l].pc = "exited"

\* C32: what a connector sends after its with_mpsc_connect returned is kept,
\* whether or not the server-side value has been published: the channel the
\* connector sends into holds its messages not yet received, in the order
\* sent; once the server-side value is published it is that value's receive
\* half that reads this channel; and what the server side has received are
\* the first messages sent, each once, so every recv returned the oldest
\* message not yet returned.
C32_EarlyMessagesKept ==
    /\ \A k \in 1 .. Len(conns) :
          conns[k].result = OkResult =>
              Numbers(conns[k].proto.tx) =
                  [i \in 1 .. Len(chans[conns[k].proto.tx]) |-> RecvdOf(k) + i]
    /\ \A i \in 1 .. Len(published) :
          conns[published[i].req].result = OkResult =>
              published[i].proto.rx = conns[published[i].req].proto.tx
    /\ \A k \in 1 .. Len(conns) :
          {r.msg.n : r \in {q \in rcvd : q.msg.from = <<"c", k>>}} = 1 .. RecvdOf(k)
    /\ \A r \in rcvd :
          /\ r.by[1] = "s"
          /\ published[r.by[2]].req = r.msg.from[2]

\* The server side of one connection has received, first to last, three
\* messages its connector had sent before the connection was published.
C32_Witness ==
    \E i \in 1 .. Len(published) :
        \A m \in 1 .. MaxEarly :
            [by |-> <<"s", i>>,
             msg |-> [from |-> <<"c", published[i].req>>, n |-> m, early |-> TRUE]]
                \in rcvd

\* C33: a send suspended on the full channel does not outlast the consumer:
\* once the receive half is dropped the suspended send ends, and it ends with
\* Closed, putting nothing into the channel.
C33_PendingSendEnds ==
    /\ (bPending /\ bRecvHalf = "dropped") ~> (~bPending /\ bLast = [res |-> "Closed", waited |-> TRUE])
    /\ [][bPending /\ bRecvHalf = "dropped" =>
             /\ bSent' = bSent
             /\ bPending' \/ bLast' = [res |-> "Closed", waited |-> TRUE]]_vars

\* A send was suspended on a channel holding 1000 messages, the receive half
\* was dropped, and the send has returned Closed.
C33_Witness ==
    /\ bRecvHalf = "dropped"
    /\ ~bPending
    /\ bLast = [res |-> "Closed", waited |-> TRUE]
    /\ bSent - bRecvd = MPSC_CHANNEL_BOUND

\* C34: of any two pairs on the new-connection sink that the same listener
\* task published, the later one has the greater connection id and is for
\* another attempt; and a step adds at most one pair, behind those present.
C34_PerListenerCidOrder ==
    /\ [](\A i, j \in 1 .. Len(published) :
             i < j /\ published[i].by = published[j].by =>
                 /\ published[i].cid < published[j].cid
                 /\ published[i].req # published[j].req)
    /\ [][\/ published' = published
          \/ /\ Len(published') = Len(published) + 1
             /\ SubSeq(published', 1, Len(published)) = published]_vars

\* One listener published two pairs and another listener published one in
\* between them.
C34_Witness ==
    /\ Len(published) = 3
    /\ published[1].by = published[3].by
    /\ published[2].by # published[1].by
    /\ published[1].cid < published[2].cid
    /\ published[2].cid < published[3].cid

\* In the step, accept task l leaves its loop.
C35_Exits(l) == listeners[l].pc # "exited" /\ listeners'[l].pc = "exited"

\* Attempt r waits at accept task l: in its backlog (Tcp) or in its
\* rendezvous channel (Mpsc).
C35_Waiting(l, r) ==
    /\ l \in 1 .. Len(listeners)
    /\ listeners[l].pc # "exited"
    /\ \E i \in 1 .. Len(listeners[l].queue) :
          IF listeners[l].kind = "Tcp"
          THEN listeners[l].queue[i].id = r
          ELSE listeners[l].queue[i] = r

\* Accept task l took attempt r and gave it an allocated connection id, and
\* the pair could not be published.
C35_AcceptedUnpublished(l, r) ==
    \E i \in 1 .. Len(unpublished) :
        /\ unpublished[i].by = l
        /\ unpublished[i].req = r
        /\ \E j \in 1 .. Len(issued) : issued[j] = unpublished[i].cid

\* C35: a new-connection sink whose consumer has gone away does not stop a
\* listener.  An accept task leaves its loop only from its select!, by the
\* cancellation branch (or, in-process, when its rendezvous channel has no
\* sender left), never from the send to the sink; with the consumer gone a
\* send publishes nothing and the task goes back to its select!; every
\* attempt waiting at a listener then is still accepted with an allocated
\* connection id unless the listener is cancelled; and the server side of
\* each pair that could not be published is dropped, so recv on its peer's
\* end returns Closed and nothing else.
C35_SinkGoneKeepsListening ==
    /\ [][\A l \in 1 .. Len(listeners) :
             C35_Exits(l) =>
                 /\ listeners[l].pc = "select"
                 /\ \/ CancelReady(listeners[l].cancel)
                    \/ listeners[l].kind = "Mpsc" /\ ~SendersAlive(l)]_vars
    /\ [][sink = "gone" =>
             /\ sink' = "gone"
             /\ published' = published
             /\ \A l \in 1 .. Len(listeners) :
                   listeners[l].pc = "publish" /\ listeners'[l].pc # "publish" =>
                       /\ listeners'[l].pc = "select"
                       /\ unpublished' = Append(unpublished,
                             [proto |-> listeners[l].cur.proto,
                              cid |-> listeners[l].cur.cid,
                              req |-> listeners[l].cur.req, by |-> l])]_vars
    /\ [](\A i \in 1 .. Len(unpublished) :
             PeerHolds(unpublished[i].by, unpublished[i].req) =>
                 /\ PeerRecvResult(unpublished[i].by, unpublished[i].req) = "Closed"
                 /\ \/ ENABLED PeerRecv(unpublished[i].by, unpublished[i].req)
                    \/ [by |-> unpublished[i].by, req |-> unpublished[i].req,
                        res |-> "Closed"] \in observed)
    /\ [](\A o \in observed : o.res = "Closed" /\ C35_AcceptedUnpublished(o.by, o.req))
    /\ \A l \in 1 .. MaxListeners, r \in 1 .. MaxPeers :
          (sink = "gone" /\ C35_Waiting(l, r))
              ~> (l \in 1 .. Len(listeners)
                  /\ \/ C35_AcceptedUnpublished(l, r)
                     \/ CancelReady(listeners[l].cancel))

\* With the consumer gone, a stream-socket listener and an in-process
\* listener have each accepted an attempt they could not publish, both are
\* back in their select! with the cancellation signal still armed, and both
\* peers have seen Closed.
C35_Witness ==
    /\ sink = "gone"
    /\ Len(unpublished) = 2
    /\ listeners[unpublished[1].by].kind # listeners[unpublished[2].by].kind
    /\ unpublished[1].cid # unpublished[2].cid
    /\ \A i \in 1 .. 2 :
          /\ listeners[unpublished[i].by].pc = "select"
          /\ listeners[unpublished[i].by].cancel = "armed"
          /\ [by |-> unpublished[i].by, req |-> unpublished[i].req,
              res |-> "Closed"] \in observed

\* A count as the sum of two counts.
CntAdd(a, b) ==
    IF a.lo + b.lo >= Limb
    THEN Cnt(a.hi + b.hi + 1, a.lo + b.lo - Limb)
    ELSE Cnt(a.hi + b.hi, a.lo + b.lo)

\* The sum of the per-item counts of a map.
RECURSIVE CntSum(_)
CntSum(f) ==
    IF DOMAIN f = {}
    THEN CntZero
    ELSE LET k == CHOOSE k \in DOMAIN f : TRUE
         IN CntAdd(f[k], CntSum([j \in DOMAIN f \ {k} |-> f[j]]))

\* C36 as stated: after any sequence of log and print calls that returned,
\* the sum of the per-item counts equals last_cnt, and last_cnt is the number
\* of log calls made since the last print call that returned a map.
C36_SumIsLastCnt ==
    ~tPanicked =>
        /\ CntSum(tracer.items) = tracer.last_cnt
        /\ tracer.last_cnt = CntSum(tLogged)

\* C36, amended: the items held count, per item, the log calls made since
\* the last print call that returned a map (since new() before any), so
\* their sum is the number of those calls; last_cnt equals that number as
\* long as it is below 2^32.
C36_SumIsLastCntBelowWrap ==
    ~tPanicked =>
        /\ tracer.items = tLogged
        /\ CntSum(tLogged).hi < Limb =>
              /\ CntSum(tracer.items) = tracer.last_cnt
              /\ tracer.last_cnt = CntSum(tLogged)

\* A print call returned a map of more than MAX_LOGS logs of two items, and
\* one log call was made since: one item held, counter 1.
C36_Witness ==
    /\ tRet.some
    /\ DOMAIN tRet.map = {"a", "b"}
    /\ tCalls = tRet.call + 1
    /\ tracer.last_cnt = Cnt(0, 1)
    /\ CntSum(tracer.items) = Cnt(0, 1)

\* The step is a print call that returned.
C37_IsPrint == tCalls' = tCalls + 1 /\ tRet'.call = tCalls'

====
